---- MODULE Spec2Model ----
(***************************************************************************)
(* A model of the consensus-validation core of PIVX (src/validation.cpp):  *)
(* the block index tree, the candidate set, the active chain and the       *)
(* reorganization engine (specifications Spec and SpecReload); block       *)
(* connection and disconnection against the coin view (specification       *)
(* SpecCoins) and mempool admission (specification SpecPool).  The chain   *)
(* machine abstracts the coin view to its best block; the coin machine     *)
(* works on the coins themselves above a tip of the chain and leaves the   *)
(* block index alone.  SpecFaults adds local faults and the commands       *)
(* InvalidateBlock and ReconsiderBlock to the chain machine; SpecFlush     *)
(* follows FlushStateToDisk step by step over files and databases that a   *)
(* crash may cut short.                                                    *)
(***************************************************************************)
EXTENDS Integers, Sequences, FiniteSets, TLC

(***************************************************************************)
(* Bounds of the model.                                                    *)
(***************************************************************************)
\* Number of blocks other than the genesis block that may be created.
MaxBlocks == 3
\* Number of blocks other than the genesis block in the runs with restarts.
MaxReloadBlocks == 2
\* Number of times the node may be shut down and its block index reloaded.
MaxRestarts == 1

\* Proof contributed by one block (GetBlockProof), drawn per block.
WorkValues == {1, 2}

Null == -1
GenesisId == 0

\* Validity tiers of enum BlockStatus, in their numeric order.
BLOCK_VALID_UNKNOWN == 0
BLOCK_VALID_HEADER == 1
BLOCK_VALID_TREE == 2
BLOCK_VALID_TRANSACTIONS == 3
BLOCK_VALID_CHAIN == 4
BLOCK_VALID_SCRIPTS == 5

VARIABLES
    mapBlockIndex,            \* block id -> CBlockIndex record (hash -> node)
    chainActive,              \* CChain::vChain, genesis first
    setBlockIndexCandidates,  \* candidate tips
    mapBlocksUnlinked,        \* set of <<parent, child>>
    nBlockSequenceId,         \* next sequence id
    pcoinsTip,                \* coin view: best block and the blocks applied to it
    vinfoBlockFile,           \* sizes of the block file and of its undo file
    blocks,                   \* block id -> the block as created by its author
    nRestarts,                \* number of reloads so far
    abcRunning,               \* some thread is inside ActivateBestChain's loop
    settled,                  \* ActivateBestChain returned true and nothing changed since
    lastOp,                   \* the last operation and what it returned
    stepOps,                  \* tip operations of the last ActivateBestChainStep
    cacheCoins,               \* the coin view: outpoint -> unspent Coin
    hashBlock,                \* the coin view: its best block, named by its height
    vConnected,               \* blocks connected to the view, with their undo data
    mapTx,                    \* mempool: the transactions in the pool
    mapNextTx,                \* mempool: outpoint -> the pool transaction spending it
    coinOp,                   \* the coin-level call in progress and what it returns
    chainParams,              \* Params(): network and activation heights
    nLastBlockFile,           \* number of the block file that is written to
    nFile,                    \* block id -> CBlockIndex::nFile, the file of its data and undo data
    diskFiles,                \* blk and rev files: the blocks written and those committed
    pblocktree,               \* block tree database: the index entries and last file written
    pcoinsdbview,             \* coin database: the best block and blocks applied, as written
    setDirtyBlockIndex,       \* the index entries changed since they were last written
    flushPc,                  \* the position of the thread inside FlushStateToDisk
    scriptcheckqueue,         \* scriptcheckqueue: the script checks waiting and under way
    connecting,               \* the position of the thread inside ConnectBlock and ConnectTip
    cs_main,                  \* cs_main: the thread that holds it, or Null
    threads,                  \* thread -> the call it is in and its position there
    skipIndex,                \* block index entries with nHeight, pprev and pskip
    latchToFalse,             \* IsInitialBlockDownload: static std::atomic<bool> latchToFalse
    ibdCalls,                 \* thread -> its call of IsInitialBlockDownload
    ibdEnv,                   \* what IsInitialBlockDownload reads: flags, heights, tip age
    ibdReturnedFalse          \* some call of IsInitialBlockDownload has returned false

\* What is on disk, and where the thread that writes it stands.  These variables
\* rest in every run but those of the machine that flushes and crashes.
\* The threads and the queue of script checks.  These variables rest in every run
\* but those of the machines with more than one thread.
ibdVars == <<latchToFalse, ibdCalls, ibdEnv, ibdReturnedFalse>>

threadVars == <<scriptcheckqueue, connecting, cs_main, threads, skipIndex, ibdVars>>

diskVars == <<nLastBlockFile, nFile, diskFiles, pblocktree, pcoinsdbview,
             setDirtyBlockIndex, flushPc, threadVars>>

chainVars == <<mapBlockIndex, chainActive, setBlockIndexCandidates, mapBlocksUnlinked,
               nBlockSequenceId, pcoinsTip, vinfoBlockFile, blocks, nRestarts, abcRunning,
               settled, lastOp, stepOps, diskVars>>

coinVars == <<cacheCoins, hashBlock, vConnected, mapTx, mapNextTx, coinOp, chainParams,
              diskVars>>

vars == <<chainVars, coinVars>>

(***************************************************************************)
(* CBlockIndex: status helpers.                                            *)
(***************************************************************************)
Failed(n) == n.nStatus.failedValid \/ n.nStatus.failedChild

\* CBlockIndex::IsValid(nUpTo)
IsValid(n, nUpTo) == ~Failed(n) /\ n.nStatus.valid >= nUpTo

\* CBlockIndex::RaiseValidity(nUpTo): the node with its tier raised
RaiseValidity(n, nUpTo) ==
    IF ~Failed(n) /\ n.nStatus.valid < nUpTo
    THEN [n EXCEPT !.nStatus.valid = nUpTo]
    ELSE n

\* CChain::Tip
Tip(chain) == IF chain = <<>> THEN Null ELSE chain[Len(chain)]

\* CChain::Contains
Contains(idx, chain, p) ==
    /\ p \in DOMAIN idx
    /\ idx[p].nHeight + 1 <= Len(chain)
    /\ chain[idx[p].nHeight + 1] = p

\* The path from the genesis block to p, following pprev.
RECURSIVE PathTo(_, _)
PathTo(idx, p) ==
    IF p = Null THEN <<>> ELSE Append(PathTo(idx, idx[p].pprev), p)

\* CChain::SetTip
SetTip(idx, p) == PathTo(idx, p)

\* CChain::FindFork
RECURSIVE FindFork(_, _, _)
FindFork(idx, chain, p) ==
    IF p = Null THEN Null
    ELSE IF Contains(idx, chain, p) THEN p
    ELSE FindFork(idx, chain, idx[p].pprev)

(***************************************************************************)
(* The order of the candidate set.                                         *)
(***************************************************************************)
\* A comparator that forgets the arrival order.
CBlockIndexWorkComparator_NoSeq(idx, pa, pb) ==
    LET a == idx[pa]
        b == idx[pb]
    IN  IF a.nChainWork > b.nChainWork THEN FALSE
        ELSE IF a.nChainWork < b.nChainWork THEN TRUE
        ELSE IF a.addr < b.addr THEN FALSE
        ELSE IF a.addr > b.addr THEN TRUE
        ELSE FALSE

\* A comparator that orders by height instead of work.
CBlockIndexWorkComparator_Height(idx, pa, pb) ==
    LET a == idx[pa]
        b == idx[pb]
    IN  IF a.nHeight > b.nHeight THEN FALSE
        ELSE IF a.nHeight < b.nHeight THEN TRUE
        ELSE IF a.nSequenceId < b.nSequenceId THEN FALSE
        ELSE IF a.nSequenceId > b.nSequenceId THEN TRUE
        ELSE IF a.addr < b.addr THEN FALSE
        ELSE IF a.addr > b.addr THEN TRUE
        ELSE FALSE

\* CBlockIndexWorkComparator()(pa, pb): TRUE when pa sorts before (is worse than) pb
CBlockIndexWorkComparator(idx, pa, pb) ==
    LET a == idx[pa]
        b == idx[pb]
    IN  IF a.nChainWork > b.nChainWork THEN FALSE
        ELSE IF a.nChainWork < b.nChainWork THEN TRUE
        ELSE IF a.nSequenceId < b.nSequenceId THEN FALSE
        ELSE IF a.nSequenceId > b.nSequenceId THEN TRUE
        ELSE IF a.addr < b.addr THEN FALSE
        ELSE IF a.addr > b.addr THEN TRUE
        ELSE FALSE

\* The least element of the set, where the greatest is wanted.
Best_Least(idx, cand) ==
    CHOOSE p \in cand : \A q \in cand \ {p} : CBlockIndexWorkComparator(idx, p, q)

\* setBlockIndexCandidates.rbegin(): the greatest element of a non-empty set
Best(idx, cand) ==
    CHOOSE p \in cand : \A q \in cand \ {p} : CBlockIndexWorkComparator(idx, q, p)

(***************************************************************************)
(* The chain state as one record, so that the helpers of validation.cpp    *)
(* can be written as functions from state to state.                        *)
(*   idx      mapBlockIndex            chain    chainActive                *)
(*   cand     setBlockIndexCandidates  unlinked mapBlocksUnlinked          *)
(*   seq      nBlockSequenceId         coins    pcoinsTip                  *)
(*   files    vinfoBlockFile           ops      log of tip operations      *)
(***************************************************************************)
ChainState ==
    [idx |-> mapBlockIndex, chain |-> chainActive, cand |-> setBlockIndexCandidates,
     unlinked |-> mapBlocksUnlinked, seq |-> nBlockSequenceId, coins |-> pcoinsTip,
     files |-> vinfoBlockFile, ops |-> <<>>]

\* A queue loop that finds no waiting child.
UnlinkedChildren_None(unl, p) == <<>>

\* The children registered under parent p in mapBlocksUnlinked, in insertion order.
RECURSIVE UnlinkedChildren(_, _)
UnlinkedChildren(unl, p) ==
    IF unl = <<>> THEN <<>>
    ELSE IF Head(unl)[1] = p
         THEN <<Head(unl)[2]>> \o UnlinkedChildren(Tail(unl), p)
         ELSE UnlinkedChildren(Tail(unl), p)

\* mapBlocksUnlinked with the entries of parent p erased.
RECURSIVE EraseUnlinked(_, _)
EraseUnlinked(unl, p) ==
    IF unl = <<>> THEN <<>>
    ELSE IF Head(unl)[1] = p
         THEN EraseUnlinked(Tail(unl), p)
         ELSE <<Head(unl)>> \o EraseUnlinked(Tail(unl), p)

\* The insertion test of ReceivedBlockTransactions without the comparison with the tip.
CandidateOnReceive_Always(s, p) == TRUE

\* ReceivedBlockTransactions: whether the linked node p enters the candidate set
CandidateOnReceive(s, p) ==
    Tip(s.chain) = Null \/ ~CBlockIndexWorkComparator(s.idx, p, Tip(s.chain))

\* ReceivedBlockTransactions: the queue loop that links a node and its waiting descendants
RECURSIVE LinkQueue(_, _)
LinkQueue(s, queue) ==
    IF queue = <<>> THEN s
    ELSE LET p == Head(queue)
             par == s.idx[p].pprev
             idx1 == [s.idx EXCEPT ![p].nChainTx =
                                       (IF par = Null THEN 0 ELSE s.idx[par].nChainTx) + s.idx[p].nTx,
                                   ![p].nSequenceId = s.seq]
             s1 == [s EXCEPT !.idx = idx1, !.seq = s.seq + 1]
             s2 == IF CandidateOnReceive(s1, p)
                   THEN [s1 EXCEPT !.cand = s1.cand \cup {p}]
                   ELSE s1
             s3 == [s2 EXCEPT !.unlinked = EraseUnlinked(s2.unlinked, p)]
         IN  LinkQueue(s3, Tail(queue) \o UnlinkedChildren(s2.unlinked, p))

\* ReceivedBlockTransactions(block, state, pindexNew, pos)
ReceivedBlockTransactions(s, b, pos) ==
    LET n0 == [s.idx[b] EXCEPT !.nTx = 1, !.nChainTx = 0, !.nDataPos = pos,
                               !.nUndoPos = 0, !.nStatus.haveData = TRUE]
        n1 == RaiseValidity(n0, BLOCK_VALID_TRANSACTIONS)
        s1 == [s EXCEPT !.idx[b] = n1]
        par == n1.pprev
    IN  IF par = Null \/ s1.idx[par].nChainTx # 0
        THEN LinkQueue(s1, <<b>>)
        ELSE IF IsValid(s1.idx[par], BLOCK_VALID_TREE)
             THEN [s1 EXCEPT !.unlinked = Append(s1.unlinked, <<par, b>>)]
             ELSE s1

\* AddToBlockIndex(block): the new node for block b with parent par.  addr is the
\* place of the node in the order of heap addresses.  The comparator reads it only
\* for two nodes of equal sequence id, which are nodes loaded by LoadBlockIndexDB
\* (see SequenceIdsDecide); that order is drawn when the index is loaded.
AddToBlockIndex(s, b, par, work) ==
    LET n0 == [pprev |-> par,
               nHeight |-> IF par = Null THEN 0 ELSE s.idx[par].nHeight + 1,
               nChainWork |-> (IF par = Null THEN 0 ELSE s.idx[par].nChainWork) + work,
               nTx |-> 0, nChainTx |-> 0, nSequenceId |-> 0,
               nStatus |-> [valid |-> BLOCK_VALID_UNKNOWN, haveData |-> FALSE, haveUndo |-> FALSE,
                            failedValid |-> FALSE, failedChild |-> FALSE],
               nDataPos |-> 0, nUndoPos |-> 0, addr |-> Cardinality(DOMAIN s.idx)]
    IN  [s EXCEPT !.idx = [p \in DOMAIN s.idx \cup {b} |->
                             IF p = b THEN RaiseValidity(n0, BLOCK_VALID_TREE) ELSE s.idx[p]]]

(***************************************************************************)
(* FindMostWorkChain and PruneBlockIndexCandidates.                        *)
(***************************************************************************)
\* A search up from p that looks at the data of a node but not at its failure flags.
RECURSIVE FirstUnusable_DataOnly(_, _)
FirstUnusable_DataOnly(s, p) ==
    IF p = Null \/ Contains(s.idx, s.chain, p) THEN Null
    ELSE IF ~s.idx[p].nStatus.haveData THEN p
    ELSE FirstUnusable_DataOnly(s, s.idx[p].pprev)

\* The first node from p upwards that is failed or lacks data, before the
\* active chain is met; Null when the whole path is usable.
RECURSIVE FirstUnusable(_, _)
FirstUnusable(s, p) ==
    IF p = Null \/ Contains(s.idx, s.chain, p) THEN Null
    ELSE IF Failed(s.idx[p]) \/ ~s.idx[p].nStatus.haveData THEN p
    ELSE FirstUnusable(s, s.idx[p].pprev)

\* FindMostWorkChain: the inner loop that removes the chain from pindexFailed
\* down to (not including) pindexTest from the candidate set
RECURSIVE RemoveChain(_, _, _, _)
RemoveChain(s, pindexFailed, pindexTest, fFailedChain) ==
    IF pindexFailed = pindexTest THEN s
    ELSE LET s1 == IF fFailedChain
                   THEN [s EXCEPT !.idx[pindexFailed].nStatus.failedChild = TRUE]
                   ELSE [s EXCEPT !.unlinked =
                            Append(s.unlinked, <<s.idx[pindexFailed].pprev, pindexFailed>>)]
             s2 == [s1 EXCEPT !.cand = s1.cand \ {pindexFailed}]
         IN  RemoveChain(s2, s.idx[pindexFailed].pprev, pindexTest, fFailedChain)

\* A search that returns the best candidate without looking at its ancestors.
FindMostWorkChain_NoAncestorCheck(s) ==
    IF s.cand = {} THEN [s |-> s, ret |-> Null]
    ELSE [s |-> s, ret |-> Best(s.idx, s.cand)]

\* FindMostWorkChain(): the state it leaves and the node it returns
RECURSIVE FindMostWorkChain(_)
FindMostWorkChain(s) ==
    IF s.cand = {} THEN [s |-> s, ret |-> Null]
    ELSE LET pindexNew == Best(s.idx, s.cand)
             pindexTest == FirstUnusable(s, pindexNew)
         IN  IF pindexTest = Null THEN [s |-> s, ret |-> pindexNew]
             ELSE LET s1 == RemoveChain(s, pindexNew, pindexTest, Failed(s.idx[pindexTest]))
                  IN  FindMostWorkChain([s1 EXCEPT !.cand = s1.cand \ {pindexTest}])

\* A pruning that forgets to prune.
PruneBlockIndexCandidates_Keep(s) == s

\* PruneBlockIndexCandidates()
PruneBlockIndexCandidates(s) ==
    [s EXCEPT !.cand = {c \in s.cand : ~CBlockIndexWorkComparator(s.idx, c, Tip(s.chain))}]

(***************************************************************************)
(* ConnectTip, DisconnectTip and ActivateBestChainStep.  In this           *)
(* specification a block is connected as a whole: blocks[p].fValid says    *)
(* whether ConnectBlock accepts it on top of its parent.                   *)
(***************************************************************************)
\* DisconnectTip(state), DisconnectBlock returning DISCONNECT_OK
DisconnectTip(s) ==
    LET pindexDelete == Tip(s.chain)
        pprev == s.idx[pindexDelete].pprev
    IN  [s EXCEPT !.coins = [best |-> pprev, applied |-> s.coins.applied \ {pindexDelete}],
                  !.chain = SetTip(s.idx, pprev),
                  !.ops = Append(s.ops, <<"disconnect", pindexDelete>>)]

\* A ConnectBlock that writes nothing to the index node.
ConnectBlockIndexUpdate_None(s, p) == s

\* ConnectBlock: what a successful, not just-checking call writes to the index node
ConnectBlockIndexUpdate(s, p) ==
    IF p = GenesisId THEN s
    ELSE IF ~s.idx[p].nStatus.haveUndo \/ ~IsValid(s.idx[p], BLOCK_VALID_SCRIPTS)
    THEN LET s1 == IF ~s.idx[p].nStatus.haveUndo
                   THEN [s EXCEPT !.idx[p].nUndoPos = s.files.nUndoSize,
                                  !.idx[p].nStatus.haveUndo = TRUE,
                                  !.files.nUndoSize = s.files.nUndoSize + 1]
                   ELSE s
         IN  [s1 EXCEPT !.idx[p] = RaiseValidity(s1.idx[p], BLOCK_VALID_SCRIPTS)]
    ELSE s

\* An InvalidBlockFound that leaves the index and the candidate set as they are.
InvalidBlockFound_NoMark(s, p) == s

\* InvalidBlockFound(pindex, state), the state not saying "corruption possible"
InvalidBlockFound(s, p) ==
    [s EXCEPT !.idx[p].nStatus.failedValid = TRUE, !.cand = s.cand \ {p}]

\* A ConnectTip that returns false for an invalid block without InvalidBlockFound.
ConnectTip_Unmarked(s, pindexNew, fValid) ==
    IF fValid
    THEN LET s1 == ConnectBlockIndexUpdate(s, pindexNew)
         IN  [s |-> [s1 EXCEPT !.coins = [best |-> pindexNew,
                                          applied |-> s1.coins.applied \cup {pindexNew}],
                               !.chain = SetTip(s1.idx, pindexNew),
                               !.ops = Append(s1.ops, <<"connect", pindexNew>>)],
              ok |-> TRUE]
    ELSE [s |-> s, ok |-> FALSE]

\* ConnectTip(state, pindexNew, ...): the state it leaves and whether it succeeded
ConnectTip(s, pindexNew, fValid) ==
    IF fValid
    THEN LET s1 == ConnectBlockIndexUpdate(s, pindexNew)
         IN  [s |-> [s1 EXCEPT !.coins = [best |-> pindexNew,
                                          applied |-> s1.coins.applied \cup {pindexNew}],
                               !.chain = SetTip(s1.idx, pindexNew),
                               !.ops = Append(s1.ops, <<"connect", pindexNew>>)],
              ok |-> TRUE]
    ELSE [s |-> InvalidBlockFound(s, pindexNew), ok |-> FALSE]

\* ActivateBestChainStep: the loop that disconnects down to the fork point
RECURSIVE DisconnectToFork(_, _)
DisconnectToFork(s, pindexFork) ==
    IF Tip(s.chain) = Null \/ Tip(s.chain) = pindexFork THEN s
    ELSE DisconnectToFork(DisconnectTip(s), pindexFork)

\* A step that keeps connecting until the target is reached.
StopConnecting_Never(s, pindexOldTip) == FALSE

\* ActivateBestChainStep: "we're in a better position than we were"
StopConnecting(s, pindexOldTip) ==
    pindexOldTip = Null \/ s.idx[Tip(s.chain)].nChainWork > s.idx[pindexOldTip].nChainWork

\* ActivateBestChainStep: the loop over vpindexToConnect, lowest height first
RECURSIVE ConnectNewBlocks(_, _, _, _)
ConnectNewBlocks(s, vpindexToConnect, pindexOldTip, blk) ==
    IF vpindexToConnect = <<>> THEN s
    ELSE LET pindexConnect == Head(vpindexToConnect)
             r == ConnectTip(s, pindexConnect, blk[pindexConnect].fValid)
         IN  IF ~r.ok THEN r.s
             ELSE LET s1 == PruneBlockIndexCandidates(r.s)
                  IN  IF StopConnecting(s1, pindexOldTip) THEN s1
                      ELSE ConnectNewBlocks(s1, Tail(vpindexToConnect), pindexOldTip, blk)

\* ActivateBestChainStep(state, pindexMostWork, ...)
ActivateBestChainStep(s, pindexMostWork, blk) ==
    LET pindexOldTip == Tip(s.chain)
        pindexFork == FindFork(s.idx, s.chain, pindexMostWork)
        s1 == DisconnectToFork(s, pindexFork)
        nHeight == IF pindexFork = Null THEN -1 ELSE s.idx[pindexFork].nHeight
        path == PathTo(s.idx, pindexMostWork)
        vpindexToConnect == SubSeq(path, nHeight + 2, Len(path))
    IN  ConnectNewBlocks(s1, vpindexToConnect, pindexOldTip, blk)

(***************************************************************************)
(* AcceptBlock, as called from the locked section of ProcessNewBlock.      *)
(* fault is what the checks that depend on more than the block and its     *)
(* parent do in this call: "late" fails one of the proof-of-stake fork     *)
(* checks made after the header has entered the index, "none" lets them    *)
(* all pass.  A call that fails a check made before the header enters the  *)
(* index (CheckBlock, CheckBlockSignature, CheckWork, CheckProofOfStake)   *)
(* returns false and changes nothing.                                      *)
(***************************************************************************)
Faults == {"none", "late"}

\* FindBlockPos followed by ReceivedBlockTransactions
StoreBlock(s, b) ==
    ReceivedBlockTransactions([s EXCEPT !.files.nSize = s.files.nSize + 1], b, s.files.nSize)

\* An AcceptBlock that stores the data again when it already has it.
AcceptKnownData_Again(s, b) ==
    [s |-> StoreBlock(s, b), ret |-> TRUE, reason |-> "stored"]

\* AcceptBlock: the node already has its data
AcceptKnownData(s, b) ==
    [s |-> s, ret |-> TRUE, reason |-> "already have block"]

\* AcceptBlock(block, state, &pindex, dbp, fAlreadyCheckedBlock = true)
AcceptBlock(s, b, blk, fault) ==
    LET par == blk[b].pprev
    IN  IF b # GenesisId /\ par \notin DOMAIN s.idx
        THEN [s |-> s, ret |-> FALSE, reason |-> "bad-prevblk"]
        ELSE IF b # GenesisId /\ Failed(s.idx[par])
        THEN [s |-> s, ret |-> FALSE, reason |-> "bad-prevblk"]
        ELSE IF b \in DOMAIN s.idx /\ Failed(s.idx[b])
        THEN [s |-> s, ret |-> FALSE, reason |-> "duplicate"]
        ELSE LET s1 == IF b \in DOMAIN s.idx THEN s
                       ELSE AddToBlockIndex(s, b, par, blk[b].work)
             IN  IF s1.idx[b].nStatus.haveData
                 THEN AcceptKnownData(s1, b)
                 ELSE IF ~blk[b].fChecks
                 THEN [s |-> [s1 EXCEPT !.idx[b].nStatus.failedValid = TRUE],
                       ret |-> FALSE, reason |-> "contextual check failed"]
                 ELSE IF fault = "late"
                 THEN [s |-> s1, ret |-> FALSE, reason |-> "stake check failed"]
                 ELSE [s |-> StoreBlock(s1, b), ret |-> TRUE, reason |-> "stored"]

(***************************************************************************)
(* UnloadBlockIndex and LoadBlockIndexDB: the index is rebuilt from what   *)
(* the block tree database holds.  Sequence ids and chain totals are not   *)
(* stored; every node is allocated anew, so the heap order is drawn again. *)
(***************************************************************************)
\* The permutations of a finite set of node ids, as functions onto 0..n-1.
HeapOrders(S) ==
    {f \in [S -> 0..(Cardinality(S) - 1)] : \A x, y \in S : x # y => f[x] # f[y]}

\* LoadBlockIndexDB: nChainTx as recomputed in height order
RECURSIVE LoadedChainTx(_, _)
LoadedChainTx(idx, p) ==
    IF ~idx[p].nStatus.haveData THEN 0
    ELSE IF idx[p].pprev = Null THEN idx[p].nTx
    ELSE IF LoadedChainTx(idx, idx[p].pprev) # 0
         THEN LoadedChainTx(idx, idx[p].pprev) + idx[p].nTx
         ELSE 0

\* LoadBlockIndexDB: nChainWork as recomputed in height order
RECURSIVE LoadedChainWork(_, _, _)
LoadedChainWork(idx, blk, p) ==
    (IF idx[p].pprev = Null THEN 0 ELSE LoadedChainWork(idx, blk, idx[p].pprev)) + blk[p].work

\* std::sort(vSortedByHeight): the nodes of S by height, then by address
RECURSIVE SortedByHeight(_, _)
SortedByHeight(idx, S) ==
    IF S = {} THEN <<>>
    ELSE LET m == CHOOSE p \in S : \A q \in S \ {p} :
                     \/ idx[p].nHeight < idx[q].nHeight
                     \/ idx[p].nHeight = idx[q].nHeight /\ idx[p].addr < idx[q].addr
         IN  <<m>> \o SortedByHeight(idx, S \ {m})

\* LoadBlockIndexDB: the entries put into mapBlocksUnlinked, in the order of the loop
RECURSIVE LoadedUnlinked(_, _)
LoadedUnlinked(idx, order) ==
    IF order = <<>> THEN <<>>
    ELSE LET p == Head(order)
         IN  (IF idx[p].nStatus.haveData /\ idx[p].pprev # Null /\ idx[idx[p].pprev].nChainTx = 0
              THEN <<<<idx[p].pprev, p>>>> ELSE <<>>) \o LoadedUnlinked(idx, Tail(order))

\* UnloadBlockIndex(); LoadBlockIndexDB(): perm is the new heap order, lost the
\* nodes whose BLOCK_FAILED_CHILD flag had not been written to the database
LoadBlockIndexDB(s, blk, perm, lost) ==
    LET disk == [p \in DOMAIN s.idx |->
                    [s.idx[p] EXCEPT !.nSequenceId = 0, !.addr = perm[p],
                                     !.nStatus.failedChild = (@ /\ p \notin lost)]]
        idx1 == [p \in DOMAIN disk |->
                    [disk[p] EXCEPT !.nChainWork = LoadedChainWork(disk, blk, p),
                                    !.nChainTx = LoadedChainTx(disk, p)]]
        cand1 == {p \in DOMAIN idx1 : /\ IsValid(idx1[p], BLOCK_VALID_TRANSACTIONS)
                                      /\ (idx1[p].nChainTx # 0 \/ idx1[p].pprev = Null)}
        s1 == [s EXCEPT !.idx = idx1, !.cand = cand1, !.seq = 1, !.chain = <<>>,
                        !.unlinked = LoadedUnlinked(idx1, SortedByHeight(idx1, DOMAIN idx1))]
    IN  IF s.coins.best \notin DOMAIN idx1 THEN s1
        ELSE PruneBlockIndexCandidates([s1 EXCEPT !.chain = SetTip(idx1, s.coins.best)])

(***************************************************************************)
(* Transactions, coins and the coin view (CCoinsViewCache).  A transaction *)
(* is a record                                                             *)
(*   type      "coinbase", "coinstake" or "normal"                         *)
(*   scriptSig for a coinbase the block height it starts with, else 0      *)
(*   vin       the outpoints spent, vout the outputs [nValue, scriptPubKey]*)
(* and its hash stands for its content: two transactions have the same     *)
(* hash exactly when all their fields agree.  Output indices count from 0. *)
(* Signatures are taken to verify and amounts stay inside MoneyRange.      *)
(***************************************************************************)
\* Amounts are counted in halves of a coin, the finest step of the reward schedule.
COIN == 2

\* consensus.nCoinbaseMaturity, scaled down
nCoinbaseMaturity == 2

GetHash(tx) == tx

COutPoint(hash, n) == [hash |-> hash, n |-> n]

IsCoinBase(tx) == tx.type = "coinbase"

IsCoinStake(tx) == tx.type = "coinstake"

\* CTxOut::SetNull
NullTxOut == [nValue |-> -1, scriptPubKey |-> ""]

\* CTxOut::SetEmpty
EmptyTxOut == [nValue |-> 0, scriptPubKey |-> ""]

\* A Coin that is spent (its output is null).
EmptyCoin == [out |-> NullTxOut, nHeight |-> 0, fCoinBase |-> FALSE, fCoinStake |-> FALSE]

IsSpent(coin) == coin.out.nValue = -1

NoCoins == [o \in {} |-> EmptyCoin]

RECURSIVE SumValues(_)
SumValues(outs) ==
    IF outs = <<>> THEN 0 ELSE Head(outs).nValue + SumValues(Tail(outs))

\* CTransaction::GetValueOut
GetValueOut(tx) == SumValues(tx.vout)

\* CCoinsViewCache::HaveCoin
HaveCoin(view, o) == o \in DOMAIN view.cacheCoins

\* CCoinsViewCache::AccessCoin
AccessCoin(view, o) == IF HaveCoin(view, o) THEN view.cacheCoins[o] ELSE EmptyCoin

\* CCoinsViewCache::AddCoin
AddCoin(view, o, coin) ==
    [view EXCEPT !.cacheCoins = [x \in DOMAIN view.cacheCoins \cup {o} |->
                                    IF x = o THEN coin ELSE view.cacheCoins[x]]]

\* CCoinsViewCache::SpendCoin(outpoint, moveout): the view left and the coin moved out
SpendCoin(view, o) ==
    [view |-> [view EXCEPT !.cacheCoins = [x \in DOMAIN view.cacheCoins \ {o} |->
                                              view.cacheCoins[x]]],
     coin |-> AccessCoin(view, o)]

\* CCoinsViewCache::HaveInputs
HaveInputs(view, tx) ==
    IsCoinBase(tx) \/ \A i \in 1..Len(tx.vin) : HaveCoin(view, tx.vin[i])

RECURSIVE SumInputs(_, _)
SumInputs(view, vin) ==
    IF vin = <<>> THEN 0
    ELSE AccessCoin(view, Head(vin)).out.nValue + SumInputs(view, Tail(vin))

\* CCoinsViewCache::GetValueIn
GetValueIn(view, tx) == IF IsCoinBase(tx) THEN 0 ELSE SumInputs(view, tx.vin)

\* AccessByTxid: some unspent output of the transaction, or the spent coin
AccessByTxid(view, hash) ==
    IF \E o \in DOMAIN view.cacheCoins : o.hash = hash
    THEN view.cacheCoins[CHOOSE o \in DOMAIN view.cacheCoins :
                            /\ o.hash = hash
                            /\ \A x \in DOMAIN view.cacheCoins : x.hash = hash => o.n <= x.n]
    ELSE EmptyCoin

\* AddCoins(cache, tx, nHeight): outputs n, n+1, ... of the transaction
RECURSIVE AddCoins(_, _, _, _)
AddCoins(view, tx, nHeight, n) ==
    IF n >= Len(tx.vout) THEN view
    ELSE AddCoins(AddCoin(view, COutPoint(GetHash(tx), n),
                          [out |-> tx.vout[n + 1], nHeight |-> nHeight,
                           fCoinBase |-> IsCoinBase(tx), fCoinStake |-> IsCoinStake(tx)]),
                  tx, nHeight, n + 1)

\* UpdateCoins: the loop that marks the inputs spent and fills the undo record
RECURSIVE SpendInputs(_, _, _)
SpendInputs(view, vin, vprevout) ==
    IF vin = <<>> THEN [view |-> view, vprevout |-> vprevout]
    ELSE LET r == SpendCoin(view, Head(vin))
         IN  SpendInputs(r.view, Tail(vin), Append(vprevout, r.coin))

\* An UpdateCoins that records nothing in the undo data.
UpdateCoins_NoUndo(tx, view, nHeight) ==
    LET r == IF IsCoinBase(tx) THEN [view |-> view, vprevout |-> <<>>]
             ELSE SpendInputs(view, tx.vin, <<>>)
    IN  [view |-> AddCoins(r.view, tx, nHeight, 0), vprevout |-> <<>>]

\* UpdateCoins(tx, inputs, txundo, nHeight): the view left and txundo.vprevout
UpdateCoins(tx, view, nHeight) ==
    LET r == IF IsCoinBase(tx) THEN [view |-> view, vprevout |-> <<>>]
             ELSE SpendInputs(view, tx.vin, <<>>)
    IN  [view |-> AddCoins(r.view, tx, nHeight, 0), vprevout |-> r.vprevout]

\* GetSpendHeight(inputs): one more than the height of the view's best block
GetSpendHeight(view) == view.hashBlock + 1

\* A maturity test that lets a reward be spent one block early.
Premature_OneEarly(coin, nSpendHeight) ==
    (coin.fCoinBase \/ coin.fCoinStake)
        /\ nSpendHeight - coin.nHeight < nCoinbaseMaturity - 1

\* Consensus::CheckTxInputs: the maturity test on one input
Premature(coin, nSpendHeight) ==
    (coin.fCoinBase \/ coin.fCoinStake)
        /\ nSpendHeight - coin.nHeight < nCoinbaseMaturity

\* Consensus::CheckTxInputs(tx, state, inputs, nSpendHeight)
CheckTxInputs(tx, view, nSpendHeight) ==
    IF ~HaveInputs(view, tx)
    THEN [ok |-> FALSE, reason |-> "Inputs unavailable"]
    ELSE IF \E i \in 1..Len(tx.vin) : Premature(AccessCoin(view, tx.vin[i]), nSpendHeight)
    THEN [ok |-> FALSE, reason |-> "bad-txns-premature-spend-of-coinbase-coinstake"]
    ELSE IF ~IsCoinStake(tx) /\ GetValueIn(view, tx) < GetValueOut(tx)
    THEN [ok |-> FALSE, reason |-> "bad-txns-in-belowout"]
    ELSE [ok |-> TRUE, reason |-> ""]

\* CheckInputs(tx, state, inputs, ...), the scripts verifying
CheckInputs(tx, view) ==
    IF IsCoinBase(tx) THEN [ok |-> TRUE, reason |-> ""]
    ELSE CheckTxInputs(tx, view, GetSpendHeight(view))

(***************************************************************************)
(* ConnectBlock and DisconnectBlock.  A block is a record [vtx]; in this   *)
(* part the hash of a block is its height, the chain above the view being  *)
(* a single line of blocks.                                                *)
(***************************************************************************)
\* Chain parameters: the network, the height at which proof of stake becomes
\* active and the activation height of UPGRADE_ZC_V2.
MainParams == [net |-> "main", nPoSHeight |-> 259201, nZCv2Height |-> 1153160]

RegTestParams == [net |-> "regtest", nPoSHeight |-> 251, nZCv2Height |-> 300]

\* GetBlockValue(nHeight)
GetBlockValue(nHeight, params) ==
    IF params.net = "regtest" THEN 250 * COIN
    ELSE LET isTestnet == params.net = "test"
             nLast == IF isTestnet THEN 648000 ELSE params.nZCv2Height
             nSecond == IF isTestnet THEN 145000 ELSE 151200
         IN  IF isTestnet /\ nHeight < 201 /\ nHeight > 1 THEN 250000 * COIN
             ELSE IF nHeight > nLast THEN 5 * COIN
             ELSE IF nHeight > 648000 THEN (9 * COIN) \div 2
             ELSE IF nHeight > 604800 THEN 9 * COIN
             ELSE IF nHeight > 561600 THEN (27 * COIN) \div 2
             ELSE IF nHeight > 518400 THEN 18 * COIN
             ELSE IF nHeight > 475200 THEN (45 * COIN) \div 2
             ELSE IF nHeight > 432000 THEN 27 * COIN
             ELSE IF nHeight > 388800 THEN (63 * COIN) \div 2
             ELSE IF nHeight > 345600 THEN 36 * COIN
             ELSE IF nHeight > 302400 THEN (81 * COIN) \div 2
             ELSE IF nHeight > nSecond THEN 45 * COIN
             ELSE IF nHeight > 86400 THEN 225 * COIN
             ELSE IF nHeight # 1 THEN 250 * COIN
             ELSE 60001 * COIN

\* IsBlockValueValid(nHeight, nExpectedValue, nMinted), no budget payment being due:
\* a block that mints more than expected is refused and one that mints exactly the
\* expected value is let through; fLessOk is its answer for a block that mints less.
IsBlockValueValid(nHeight, nExpectedValue, nMinted, fLessOk) ==
    IF nMinted > nExpectedValue THEN FALSE
    ELSE IF nMinted = nExpectedValue THEN TRUE
    ELSE fLessOk

\* CBlock::IsProofOfStake
IsProofOfStake(block) == Len(block.vtx) > 1 /\ IsCoinStake(block.vtx[2])

\* A tally of the minted value that leaves the fees out.
MintOf_NoFees(nValueOut, nValueIn, nFees) == nValueOut - nValueIn

\* ConnectBlock: nMint
MintOf(nValueOut, nValueIn, nFees) == (nValueOut - nValueIn) + nFees

\* An expected mint that adds the fees for every kind of block.
ExpectedMint_AlwaysFees(block, nHeight, nFees, params) ==
    GetBlockValue(nHeight, params) + nFees

\* ConnectBlock: nExpectedMint
ExpectedMint(block, nHeight, nFees, params) ==
    GetBlockValue(nHeight, params) + (IF ~IsProofOfStake(block) THEN nFees ELSE 0)

\* ConnectBlock: the loop over block.vtx from transaction i on; a holds the view,
\* the running totals, the undo records and the reject reason of a failed check
RECURSIVE ConnectTxs(_, _, _, _)
ConnectTxs(block, i, a, nHeight) ==
    IF i > Len(block.vtx) THEN a
    ELSE LET tx == block.vtx[i]
         IN  IF ~IsCoinBase(tx) /\ ~HaveInputs(a.view, tx)
             THEN [a EXCEPT !.ok = FALSE, !.reason = "bad-txns-inputs-missingorspent"]
             ELSE LET nIn == GetValueIn(a.view, tx)
                      chk == CheckInputs(tx, a.view)
                      u == UpdateCoins(tx, a.view, nHeight)
                  IN  IF ~chk.ok THEN [a EXCEPT !.ok = FALSE, !.reason = chk.reason]
                      ELSE ConnectTxs(block, i + 1,
                               [view |-> u.view,
                                nFees |-> a.nFees + (IF ~IsCoinBase(tx) /\ ~IsCoinStake(tx)
                                                     THEN nIn - GetValueOut(tx) ELSE 0),
                                nValueIn |-> a.nValueIn + nIn,
                                nValueOut |-> a.nValueOut + GetValueOut(tx),
                                vtxundo |-> IF i > 1 THEN Append(a.vtxundo, u.vprevout)
                                            ELSE a.vtxundo,
                                ok |-> TRUE, reason |-> ""],
                               nHeight)

\* A ConnectBlock that connects the transactions of the genesis block like those of
\* any other block.
ConnectBlock_GenesisConnected(block, nHeight, view, fJustCheck, params, fLessOk) ==
    LET a == ConnectTxs(block, 1,
                        [view |-> view, nFees |-> 0, nValueIn |-> 0, nValueOut |-> 0,
                         vtxundo |-> <<>>, ok |-> TRUE, reason |-> ""], nHeight)
    IN  IF ~a.ok THEN [ok |-> FALSE, reason |-> a.reason, view |-> view, vtxundo |-> <<>>]
        ELSE IF fJustCheck
        THEN [ok |-> TRUE, reason |-> "", view |-> view, vtxundo |-> <<>>]
        ELSE [ok |-> TRUE, reason |-> "",
              view |-> [a.view EXCEPT !.hashBlock = nHeight], vtxundo |-> a.vtxundo]

\* ConnectBlock(block, state, pindex, view, fJustCheck) for the block at height
\* nHeight on a view whose best block is the block below: whether it succeeded, the
\* reject reason, the view it leaves and the undo data it writes
ConnectBlock(block, nHeight, view, fJustCheck, params, fLessOk) ==
    LET fail(r) == [ok |-> FALSE, reason |-> r, view |-> view, vtxundo |-> <<>>]
        isPoSActive == nHeight >= params.nPoSHeight
        a == ConnectTxs(block, 1,
                        [view |-> view, nFees |-> 0, nValueIn |-> 0, nValueOut |-> 0,
                         vtxundo |-> <<>>, ok |-> TRUE, reason |-> ""], nHeight)
        nMint == MintOf(a.nValueOut, a.nValueIn, a.nFees)
        nExpectedMint == ExpectedMint(block, nHeight, a.nFees, params)
    IN  IF nHeight = 0
        THEN [ok |-> TRUE, reason |-> "",
              view |-> IF fJustCheck THEN view ELSE [view EXCEPT !.hashBlock = nHeight],
              vtxundo |-> <<>>]
        ELSE IF ~isPoSActive /\ IsProofOfStake(block) THEN fail("PoS-early")
        ELSE IF isPoSActive /\ ~IsProofOfStake(block) THEN fail("PoW-ended")
        ELSE IF ~a.ok THEN fail(a.reason)
        ELSE IF ~IsBlockValueValid(nHeight, nExpectedMint, nMint, fLessOk)
        THEN fail("bad-cb-amount")
        ELSE IF fJustCheck
        THEN [ok |-> TRUE, reason |-> "", view |-> view, vtxundo |-> <<>>]
        ELSE [ok |-> TRUE, reason |-> "",
              view |-> [a.view EXCEPT !.hashBlock = nHeight], vtxundo |-> a.vtxundo]

\* ApplyTxInUndo(undo, view, out): the result and the view left
ApplyTxInUndo(undo, view, out) ==
    LET fClean == ~HaveCoin(view, out)
        alternate == AccessByTxid(view, out.hash)
        undo1 == IF undo.nHeight = 0 /\ ~IsSpent(alternate)
                 THEN [undo EXCEPT !.nHeight = alternate.nHeight,
                                   !.fCoinBase = alternate.fCoinBase,
                                   !.fCoinStake = alternate.fCoinStake]
                 ELSE undo
    IN  IF undo.nHeight = 0 /\ IsSpent(alternate)
        THEN [res |-> "DISCONNECT_FAILED", view |-> view]
        ELSE [res |-> IF fClean THEN "DISCONNECT_OK" ELSE "DISCONNECT_UNCLEAN",
              view |-> AddCoin(view, out, undo1)]

\* DisconnectBlock: the loop that removes outputs n, n+1, ... of tx from the view
RECURSIVE RemoveOutputs(_, _, _)
RemoveOutputs(a, tx, n) ==
    IF n >= Len(tx.vout) THEN a
    ELSE LET r == SpendCoin(a.view, COutPoint(GetHash(tx), n))
         IN  RemoveOutputs([a EXCEPT !.view = r.view,
                                     !.fClean = a.fClean /\ tx.vout[n + 1] = r.coin.out],
                           tx, n + 1)

\* DisconnectBlock: the loop that restores inputs j, j-1, ..., 1 of tx
RECURSIVE RestoreInputs(_, _, _, _)
RestoreInputs(a, tx, vprevout, j) ==
    IF j = 0 \/ a.failed THEN a
    ELSE LET r == ApplyTxInUndo(vprevout[j], a.view, tx.vin[j])
         IN  IF r.res = "DISCONNECT_FAILED" THEN [a EXCEPT !.failed = TRUE]
             ELSE RestoreInputs([a EXCEPT !.view = r.view,
                                          !.fClean = a.fClean /\ r.res # "DISCONNECT_UNCLEAN"],
                                tx, vprevout, j - 1)

\* DisconnectBlock: what is done for transaction i of the block
DisconnectTx(a, block, vtxundo, i) ==
    LET tx == block.vtx[i]
        a1 == RemoveOutputs(a, tx, 0)
    IN  IF IsCoinBase(tx) THEN a1
        ELSE IF Len(vtxundo[i - 1]) # Len(tx.vin) THEN [a1 EXCEPT !.failed = TRUE]
        ELSE RestoreInputs(a1, tx, vtxundo[i - 1], Len(tx.vin))

\* A loop over the transactions in the order of the block.
RECURSIVE DisconnectTxs_Forward(_, _, _, _)
DisconnectTxs_Forward(a, block, vtxundo, i) ==
    IF i = 0 \/ a.failed THEN a
    ELSE DisconnectTxs_Forward(DisconnectTx(a, block, vtxundo, Len(block.vtx) - i + 1),
                               block, vtxundo, i - 1)

\* DisconnectBlock: the loop over the transactions i, i-1, ..., 1 ("in reverse order")
RECURSIVE DisconnectTxs(_, _, _, _)
DisconnectTxs(a, block, vtxundo, i) ==
    IF i = 0 \/ a.failed THEN a
    ELSE DisconnectTxs(DisconnectTx(a, block, vtxundo, i), block, vtxundo, i - 1)

\* DisconnectBlock(block, pindex, view) for the block at height nHeight whose undo
\* data is vtxundo: the result and the view left
DisconnectBlock(block, nHeight, view, vtxundo) ==
    IF Len(vtxundo) + 1 # Len(block.vtx)
    THEN [res |-> "DISCONNECT_FAILED", view |-> view]
    ELSE LET a == DisconnectTxs([view |-> view, fClean |-> TRUE, failed |-> FALSE],
                                block, vtxundo, Len(block.vtx))
         IN  IF a.failed THEN [res |-> "DISCONNECT_FAILED", view |-> a.view]
             ELSE [res |-> IF a.fClean THEN "DISCONNECT_OK" ELSE "DISCONNECT_UNCLEAN",
                   view |-> [a.view EXCEPT !.hashBlock = nHeight - 1]]

(***************************************************************************)
(* The memory pool (CTxMemPool) and AcceptToMemoryPool.  A pool is a       *)
(* record [mapTx, mapNextTx].  The pool is far from its size limit, so     *)
(* nothing is trimmed.                                                     *)
(***************************************************************************)
\* The height given to the coins of unconfirmed transactions.
MEMPOOL_HEIGHT == 2147483647

\* The outputs of the pool's transactions as coins.
PoolCoins(pool) ==
    UNION {{[o |-> COutPoint(GetHash(tx), n - 1),
             coin |-> [out |-> tx.vout[n], nHeight |-> MEMPOOL_HEIGHT,
                       fCoinBase |-> FALSE, fCoinStake |-> FALSE]] : n \in 1..Len(tx.vout)} :
           tx \in pool.mapTx}

\* CCoinsViewMemPool(base, mempool): an outpoint of a pool transaction is answered
\* from the pool, any other outpoint by the base view
CCoinsViewMemPool(view, pool) ==
    LET pc == PoolCoins(pool)
        po == {c.o : c \in pc}
    IN  [view EXCEPT !.cacheCoins =
            [o \in DOMAIN view.cacheCoins \cup po |->
                IF o \in po THEN (CHOOSE c \in pc : c.o = o).coin ELSE view.cacheCoins[o]]]

\* CTxMemPool::addUnchecked
addUnchecked(pool, tx) ==
    [mapTx |-> pool.mapTx \cup {tx},
     mapNextTx |-> [o \in DOMAIN pool.mapNextTx \cup {tx.vin[i] : i \in 1..Len(tx.vin)} |->
                       IF \E i \in 1..Len(tx.vin) : tx.vin[i] = o THEN tx
                       ELSE pool.mapNextTx[o]]]

\* The pool transactions that spend an output of a transaction of the set S.
Children(pool, S) ==
    {t \in pool.mapTx : \E i \in 1..Len(t.vin) : t.vin[i].hash \in S}

\* The transactions of S with all their descendants in the pool.
RECURSIVE WithDescendants(_, _)
WithDescendants(pool, S) ==
    IF Children(pool, S) \subseteq S THEN S
    ELSE WithDescendants(pool, S \cup Children(pool, S))

\* The pool without the transactions of the set S.
Without(pool, S) ==
    LET keep == pool.mapTx \ S
    IN  [mapTx |-> keep,
         mapNextTx |-> [o \in {x \in DOMAIN pool.mapNextTx : pool.mapNextTx[x] \in keep} |->
                           pool.mapNextTx[o]]]

\* CTxMemPool::remove(tx, removed, fRecursive = true)
remove(pool, tx) == Without(pool, WithDescendants(pool, {tx}))

\* CTxMemPool::removeForBlock: each transaction of the block leaves the pool, and so
\* do the pool transactions that spend an input of it, with their descendants
RECURSIVE removeForBlock(_, _)
removeForBlock(pool, vtx) ==
    IF vtx = <<>> THEN pool
    ELSE LET tx == Head(vtx)
             p1 == Without(pool, {tx})
             conflicts == {t \in p1.mapTx :
                              \E i \in 1..Len(t.vin), j \in 1..Len(tx.vin) : t.vin[i] = tx.vin[j]}
         IN  removeForBlock(Without(p1, WithDescendants(p1, conflicts)), Tail(vtx))

\* An admission that does not look for conflicts in the pool.
SpendsPoolInput_Never(pool, tx) == FALSE

\* AcceptToMemoryPoolWorker: "check for conflicts with in-memory transactions"
SpendsPoolInput(pool, tx) ==
    \E i \in 1..Len(tx.vin) : tx.vin[i] \in DOMAIN pool.mapNextTx

\* CValidationState as its constructor leaves it: MODE_VALID, no reject code, no
\* misbehaviour score.
ValidState == [mode |-> "valid", chRejectCode |-> "", nDoS |-> 0]

\* state.DoS(level, false, chRejectCode, ...); state.Invalid is DoS(0, ...)
DoS(level, chRejectCode) == [mode |-> "invalid", chRejectCode |-> chRejectCode, nDoS |-> level]

\* The CValidationState that AcceptToMemoryPoolWorker returns with when it rejects
\* for reason r: two of its exits return false without touching the state.
RejectState(r) ==
    CASE r \in {"coinbase", "coinstake"} -> DoS(100, "REJECT_INVALID")
      [] r = "non-standard" -> DoS(0, "REJECT_NONSTANDARD")
      [] r \in {"txn-already-in-mempool", "txn-already-known"} -> DoS(0, "REJECT_ALREADY_KNOWN")
      [] r = "txn-mempool-conflict" -> DoS(0, "REJECT_CONFLICT")
      [] r \in {"insufficient fee", "insufficient priority", "rate limited free transaction",
                "mempool full"} -> DoS(0, "REJECT_INSUFFICIENTFEE")
      [] r = "absurdly-high-fee" -> DoS(0, "REJECT_HIGHFEE")
      [] r = "bad-txns-premature-spend-of-coinbase-coinstake" -> DoS(0, "REJECT_INVALID")
      [] r = "bad-txns-in-belowout" -> DoS(100, "REJECT_INVALID")
      [] r = "Inputs unavailable" -> DoS(0, "")
      [] r \in {"missing inputs", "zero fees not accepted"} -> ValidState

\* An exit for a missing input that leaves the flag as it is and marks the state.
RejectMissingInputs_Invalid(r) == [r EXCEPT !.state = DoS(0, "REJECT_INVALID")]

\* AcceptToMemoryPoolWorker, "do all inputs exist?": *pfMissingInputs = true and
\* return false, without a call of state.Invalid
RejectMissingInputs(r) == [r EXCEPT !.fMissingInputs = TRUE]

\* AcceptToMemoryPoolWorker(pool, state, tx, ...) on the coin view of the tip:
\* fStandard is the verdict of IsStandardTx, fFeeOk that of the relay-fee, priority,
\* rate and ancestor limits; the result, the reject reason and the pool left
AcceptToMemoryPoolWorker(pool, view, tx, params, fStandard, fFeeOk) ==
    LET rej(r) == [ok |-> FALSE, reason |-> r, pool |-> pool, fMissingInputs |-> FALSE,
                   state |-> RejectState(r)]
        viewMemPool == CCoinsViewMemPool(view, pool)
        nFees == GetValueIn(viewMemPool, tx) - GetValueOut(tx)
        chk == CheckInputs(tx, viewMemPool)
    IN  IF IsCoinBase(tx) THEN rej("coinbase")
        ELSE IF IsCoinStake(tx) THEN rej("coinstake")
        ELSE IF params.net # "regtest" /\ ~fStandard THEN rej("non-standard")
        ELSE IF tx \in pool.mapTx THEN rej("txn-already-in-mempool")
        ELSE IF SpendsPoolInput(pool, tx) THEN rej("txn-mempool-conflict")
        ELSE IF \E n \in 0..(Len(tx.vout) - 1) : HaveCoin(viewMemPool, COutPoint(GetHash(tx), n))
        THEN rej("txn-already-known")
        ELSE IF \E i \in 1..Len(tx.vin) : ~HaveCoin(viewMemPool, tx.vin[i])
        THEN RejectMissingInputs(rej("missing inputs"))
        ELSE IF ~fFeeOk THEN rej("insufficient fee")
        ELSE IF params.net # "regtest" /\ nFees = 0 THEN rej("zero fees not accepted")
        ELSE IF ~chk.ok THEN rej(chk.reason)
        ELSE [ok |-> TRUE, reason |-> "", pool |-> addUnchecked(pool, tx),
              fMissingInputs |-> FALSE, state |-> ValidState]

\* DisconnectTip: "resurrect mempool transactions from the disconnected block"
RECURSIVE ResurrectTxs(_, _, _, _, _, _)
ResurrectTxs(pool, view, vtx, params, fStandard, fFeeOk) ==
    IF vtx = <<>> THEN pool
    ELSE LET tx == Head(vtx)
             r == AcceptToMemoryPoolWorker(pool, view, tx, params, fStandard, fFeeOk)
         IN  ResurrectTxs(IF IsCoinBase(tx) \/ IsCoinStake(tx) \/ ~r.ok
                          THEN remove(pool, tx) ELSE r.pool,
                          view, Tail(vtx), params, fStandard, fFeeOk)

(***************************************************************************)
(* The state machine of the block index and the active chain.              *)
(***************************************************************************)
GenesisBlock == [pprev |-> Null, work |-> 1, fValid |-> TRUE, fChecks |-> TRUE]

EmptyChainState ==
    [idx |-> <<>>, chain |-> <<>>, cand |-> {}, unlinked |-> <<>>, seq |-> 1,
     coins |-> [best |-> Null, applied |-> {}],
     files |-> [nSize |-> 0, nUndoSize |-> 1], ops |-> <<>>]

\* InitBlockIndex(): the genesis block is written, indexed and marked as received
InitBlockIndex ==
    StoreBlock(AddToBlockIndex(EmptyChainState, GenesisId, Null, GenesisBlock.work),
               GenesisId)

\* The chain variables take the fields of state record s.
SetChainState(s) ==
    /\ mapBlockIndex' = s.idx
    /\ chainActive' = s.chain
    /\ setBlockIndexCandidates' = s.cand
    /\ mapBlocksUnlinked' = s.unlinked
    /\ nBlockSequenceId' = s.seq
    /\ pcoinsTip' = s.coins
    /\ vinfoBlockFile' = s.files

SameChainState(s) == [s EXCEPT !.ops = <<>>] = ChainState

\* CDiskBlockIndex: an index entry as the block tree database stores it.  The
\* sequence id, the chain totals and the place of the node in memory are not stored.
DiskIndex(idx) ==
    [p \in DOMAIN idx |-> [idx[p] EXCEPT !.nSequenceId = 0, !.nChainWork = 0,
                                         !.nChainTx = 0, !.addr = 0]]

\* FlushStateToDisk is not running.
IdleFlush == [pc |-> "idle", fDoFullFlush |-> FALSE, tip |-> Null, op |-> "none"]

\* InitBlockIndex(): what its FlushStateToDisk(FLUSH_STATE_ALWAYS) leaves on disk
InitDisk ==
    /\ nLastBlockFile = 0
    /\ nFile = [b \in {GenesisId} |-> 0]
    /\ diskFiles = [blk |-> [written |-> {GenesisId}, committed |-> {GenesisId}],
                    rev |-> [written |-> {}, committed |-> {}]]
    /\ pblocktree = [idx |-> DiskIndex(InitBlockIndex.idx),
                     nFile |-> [b \in {GenesisId} |-> 0], nLastBlockFile |-> 0]
    /\ pcoinsdbview = InitBlockIndex.coins
    /\ setDirtyBlockIndex = {}
    /\ flushPc = IdleFlush

\* Number of threads the script check queue runs besides the thread that connects.
nScriptCheckWorkers == 2
\* Number of threads that call into the validation code at the same time.
MaxThreads == 2

\* A thread of the script check queue that has no check in hand.
NoJob == <<>>

\* CCheckQueue as its constructor leaves it: nothing queued, nothing to do, all well.
\* Thread 0 is the thread that connects the block; passed collects the checks that
\* ran and returned true.
EmptyCheckQueue ==
    [queue |-> {}, nTodo |-> 0, fAllOk |-> TRUE,
     busy |-> [w \in 0..nScriptCheckWorkers |-> NoJob], passed |-> {}]

\* No block is being connected.
IdleConnect == [pc |-> "idle"]

\* A thread that is in no call of the validation code.
IdleThread == [pc |-> "idle"]

\* The entry of the genesis block: no block below, and BuildSkip leaves pskip null.
GenesisSkipEntry == [nHeight |-> 0, pprev |-> Null, pskip |-> Null]

\* No caller is inside IsInitialBlockDownload; what the store to the latch would make
\* visible to the thread is not yet visible (fSeen).
IdleCall == [pc |-> "idle", fSeen |-> FALSE, fAfterFalse |-> FALSE, ret |-> "none"]

\* fImporting{false}, fReindex{false}, fVerifyingBlocks = false; the active chain and
\* the best header are at the genesis block, whose time is older than nMaxTipAge.
InitIbdEnv ==
    [fImporting |-> FALSE, fReindex |-> FALSE, fVerifyingBlocks |-> FALSE,
     chainHeight |-> 0, nBestHeaderHeight |-> 0, fHeaderOld |-> TRUE]

\* No thread has entered the validation code, and the block index holds the genesis
\* block.
InitThreads ==
    /\ scriptcheckqueue = EmptyCheckQueue
    /\ connecting = IdleConnect
    /\ cs_main = Null
    /\ threads = [t \in 1..MaxThreads |-> IdleThread]
    /\ skipIndex = <<GenesisSkipEntry>>
    /\ latchToFalse = FALSE
    /\ ibdCalls = [t \in 1..MaxThreads |-> IdleCall]
    /\ ibdEnv = InitIbdEnv
    /\ ibdReturnedFalse = FALSE

InitChain ==
    /\ InitDisk
    /\ InitThreads
    /\ mapBlockIndex = InitBlockIndex.idx
    /\ chainActive = InitBlockIndex.chain
    /\ setBlockIndexCandidates = InitBlockIndex.cand
    /\ mapBlocksUnlinked = InitBlockIndex.unlinked
    /\ nBlockSequenceId = InitBlockIndex.seq
    /\ pcoinsTip = InitBlockIndex.coins
    /\ vinfoBlockFile = InitBlockIndex.files
    /\ blocks = [b \in {GenesisId} |-> GenesisBlock]
    /\ nRestarts = 0
    /\ abcRunning = FALSE
    /\ settled = FALSE
    /\ lastOp = [op |-> "InitBlockIndex", ret |-> TRUE, reason |-> "stored"]
    /\ stepOps = <<>>

\* ProcessNewBlock: the section under cs_main, for block b of the blocks blk
ProcessNewBlockLocked(b, blk, fault) ==
    LET a == AcceptBlock(ChainState, b, blk, fault)
    IN  /\ SetChainState(a.s)
        /\ blocks' = blk
        /\ abcRunning' = (abcRunning \/ a.ret)
        /\ settled' = (settled /\ SameChainState(a.s))
        /\ lastOp' = [op |-> "ProcessNewBlock", ret |-> a.ret, reason |-> a.reason]
        /\ stepOps' = <<>>
        /\ UNCHANGED <<nRestarts, coinVars>>

\* A block that no node has seen yet is created on a known block and submitted;
\* at most nMax blocks are created on top of the genesis block.
ProcessNewBlock_New(nMax) ==
    /\ Cardinality(DOMAIN blocks) <= nMax
    /\ \E par \in DOMAIN mapBlockIndex, work \in WorkValues, fValid \in BOOLEAN,
          fChecks \in BOOLEAN, fault \in Faults :
          /\ fValid => fChecks
          /\ LET b == Cardinality(DOMAIN blocks)
                 blk == [x \in DOMAIN blocks \cup {b} |->
                            IF x = b THEN [pprev |-> par, work |-> work, fValid |-> fValid,
                                           fChecks |-> fChecks]
                            ELSE blocks[x]]
             IN  ProcessNewBlockLocked(b, blk, fault)

\* A block that was submitted before is submitted again.
ProcessNewBlock_Known ==
    \E b \in DOMAIN blocks, fault \in Faults :
        ProcessNewBlockLocked(b, blocks, fault)

\* ActivateBestChain is called: by ProcessNewBlock after its locked section
\* (abcRunning is then already set) or by any other caller.
ActivateBestChain_Call ==
    /\ ~abcRunning
    /\ abcRunning' = TRUE
    /\ UNCHANGED <<mapBlockIndex, chainActive, setBlockIndexCandidates, mapBlocksUnlinked,
                   nBlockSequenceId, pcoinsTip, vinfoBlockFile, blocks, nRestarts,
                   settled, lastOp, stepOps, coinVars>>

\* ActivateBestChain, one pass under cs_main that finds nothing to do: returns true
ActivateBestChain_Done ==
    /\ abcRunning
    /\ LET f == FindMostWorkChain(ChainState)
       IN  /\ f.ret = Null \/ f.ret = Tip(f.s.chain)
           /\ SetChainState(f.s)
           /\ abcRunning' = FALSE
           /\ settled' = TRUE
           /\ lastOp' = [op |-> "ActivateBestChain", ret |-> TRUE,
                         reason |-> "nothing to do"]
           /\ stepOps' = <<>>
    /\ UNCHANGED <<blocks, nRestarts, coinVars>>

\* ActivateBestChain, one pass under cs_main that runs ActivateBestChainStep; the
\* loop ends, and the call returns true, when the tip is the node aimed at
ActivateBestChain_Step ==
    /\ abcRunning
    /\ LET f == FindMostWorkChain(ChainState)
       IN  /\ f.ret # Null
           /\ f.ret # Tip(f.s.chain)
           /\ LET s1 == ActivateBestChainStep(f.s, f.ret, blocks)
                  done == Tip(s1.chain) = f.ret
              IN  /\ SetChainState(s1)
                  /\ abcRunning' = ~done
                  /\ settled' = done
                  /\ lastOp' = [op |-> "ActivateBestChainStep", ret |-> TRUE,
                                reason |-> IF done THEN "tip reached" ELSE "again"]
                  /\ stepOps' = s1.ops
    /\ UNCHANGED <<blocks, nRestarts, coinVars>>

\* The node is shut down with its state flushed, and started again.
Restart ==
    /\ nRestarts < MaxRestarts
    /\ \E perm \in HeapOrders(DOMAIN mapBlockIndex),
          lost \in SUBSET {p \in DOMAIN mapBlockIndex : mapBlockIndex[p].nStatus.failedChild} :
          SetChainState(LoadBlockIndexDB(ChainState, blocks, perm, lost))
    /\ nRestarts' = nRestarts + 1
    /\ abcRunning' = FALSE
    /\ settled' = FALSE
    /\ lastOp' = [op |-> "LoadBlockIndexDB", ret |-> TRUE, reason |-> "loaded"]
    /\ stepOps' = <<>>
    /\ UNCHANGED <<blocks, coinVars>>

(***************************************************************************)
(* The state machine of the coin view and the memory pool: the part of     *)
(* ConnectTip, DisconnectTip and AcceptToMemoryPool that works on          *)
(* pcoinsTip and mempool.  The block index rests in these runs, and the    *)
(* coin variables rest in the runs of the chain machine.                   *)
(***************************************************************************)
\* Number of blocks that may be connected above the block the run starts at.
MaxConnected == 2
\* Number of blocks that may be connected above the start in the runs with a pool.
MaxPoolBlocks == 1
\* Number of transactions the pool may hold when AcceptToMemoryPool is called.
MaxPoolTx == 2

View == [cacheCoins |-> cacheCoins, hashBlock |-> hashBlock]

Pool == [mapTx |-> mapTx, mapNextTx |-> mapNextTx]

NoNextTx == [o \in {} |-> 0]

\* The coinbase of the block at height nHeight paying out, or with an empty output.
CoinBaseTx(nHeight, out) ==
    [type |-> "coinbase", scriptSig |-> nHeight, vin |-> <<>>, vout |-> <<out>>]

\* A coinstake that spends outpoint o of value v and mints nMinted on top of it.
CoinStakeTx(o, v, nMinted) ==
    [type |-> "coinstake", scriptSig |-> 0, vin |-> <<o>>,
     vout |-> <<EmptyTxOut, [nValue |-> v + nMinted, scriptPubKey |-> "p2pkh"]>>]

\* A transaction that spends the outpoints vin, worth v together, and pays the fee.
SpendTx(vin, v, nFee) ==
    [type |-> "normal", scriptSig |-> 0, vin |-> vin,
     vout |-> <<[nValue |-> v - nFee, scriptPubKey |-> "p2pkh"]>>]

\* A transaction of a block below the start of the run, known by its k-th output only.
OldTx(type, k, out) ==
    [type |-> type, scriptSig |-> k, vin |-> <<>>,
     vout |-> IF type = "coinstake" THEN <<EmptyTxOut, out>> ELSE <<out>>]

\* The unspent coins at the start of a run at height nHeight: an ordinary coin, a
\* reward that is exactly mature in the next block and a reward of the tip block.
StartCoins(params, nHeight) ==
    IF nHeight <= nCoinbaseMaturity THEN NoCoins
    ELSE LET reward == IF nHeight >= params.nPoSHeight THEN "coinstake" ELSE "coinbase"
             n == IF reward = "coinstake" THEN 1 ELSE 0
             outA == [nValue |-> 10, scriptPubKey |-> "p2sh"]
             outB == [nValue |-> 20, scriptPubKey |-> "p2pkh"]
             outC == [nValue |-> 30, scriptPubKey |-> "p2pkh"]
             a == COutPoint(OldTx("normal", nHeight - nCoinbaseMaturity, outA), 0)
             b == COutPoint(OldTx(reward, nHeight + 1 - nCoinbaseMaturity, outB), n)
             c == COutPoint(OldTx(reward, nHeight, outC), n)
         IN  [o \in {a, b, c} |->
                 IF o = a THEN [out |-> outA, nHeight |-> nHeight - nCoinbaseMaturity,
                                fCoinBase |-> FALSE, fCoinStake |-> FALSE]
                 ELSE IF o = b THEN [out |-> outB, nHeight |-> nHeight + 1 - nCoinbaseMaturity,
                                     fCoinBase |-> reward = "coinbase",
                                     fCoinStake |-> reward = "coinstake"]
                 ELSE [out |-> outC, nHeight |-> nHeight,
                       fCoinBase |-> reward = "coinbase", fCoinStake |-> reward = "coinstake"]]

\* The coin variables of a node on network params whose tip is at height nHeight.
CoinsAt(params, nHeight) ==
    /\ cacheCoins = StartCoins(params, nHeight)
    /\ hashBlock = nHeight
    /\ vConnected = <<>>
    /\ mapTx = {}
    /\ mapNextTx = NoNextTx
    /\ coinOp = [op |-> "none", ret |-> TRUE, reason |-> "", fJustCheck |-> FALSE,
                 facts |-> <<>>]
    /\ chainParams = params

Init == InitChain /\ CoinsAt(MainParams, Null)

Next ==
    \/ ProcessNewBlock_New(MaxBlocks)
    \/ ProcessNewBlock_Known
    \/ ActivateBestChain_Call
    \/ ActivateBestChain_Done
    \/ ActivateBestChain_Step

Spec == Init /\ [][Next]_vars

\* The same machine with restarts of the node, over fewer blocks.
NextReload ==
    \/ ProcessNewBlock_New(MaxReloadBlocks)
    \/ ProcessNewBlock_Known
    \/ ActivateBestChain_Call
    \/ ActivateBestChain_Done
    \/ ActivateBestChain_Step
    \/ Restart

SpecReload == Init /\ [][NextReload]_vars

(***************************************************************************)
(* Local faults.  A tip operation may fail for a reason that says nothing  *)
(* about the block: the block cannot be read from disk ("read"), the undo  *)
(* data cannot be read or written ("undo"), the state cannot be flushed    *)
(* ("flush").  A fault names the tip operation of the step it strikes,     *)
(* counted from 1, and its kind.  The outcome of an operation is a record  *)
(*   s          the chain state left                                       *)
(*   ok         the return value                                           *)
(*   mode       the CValidationState: "valid", "invalid" or "error"        *)
(*   fShutdown  StartShutdown was called                                   *)
(*   failure    "none", "consensus" or the kind of the local fault         *)
(***************************************************************************)
NoFault == [at |-> 0, kind |-> "none"]

LocalFaultKinds == {"read", "undo", "flush"}

Outcome(s, ok, mode, fShutdown, failure) ==
    [s |-> s, ok |-> ok, mode |-> mode, fShutdown |-> fShutdown, failure |-> failure]

\* AbortNode(state, strMessage): shutdown is requested and the state is an error
AbortNode(s, failure)== Outcome(s, FALSE, "error", TRUE, failure)

\* The kind of fault that strikes the next tip operation of the step.
Striking(s, fault) == IF fault.at = Len(s.ops) + 1 THEN fault.kind ELSE "none"

\* DisconnectTip(state) where a fault of the kind may strike
DisconnectTipOutcome(s, kind) ==
    LET pindexDelete == Tip(s.chain)
        pprev == s.idx[pindexDelete].pprev
    IN  IF kind = "read" THEN AbortNode(s, kind)
        ELSE IF kind = "undo" THEN Outcome(s, FALSE, "valid", FALSE, kind)
        ELSE IF kind = "flush"
        THEN AbortNode([s EXCEPT !.coins = [best |-> pprev,
                                            applied |-> s.coins.applied \ {pindexDelete}]],
                       kind)
        ELSE Outcome(DisconnectTip(s), TRUE, "valid", FALSE, "none")

\* ConnectTip(state, pindexNew, ...) where a fault of the kind may strike
ConnectTipOutcome(s, pindexNew, fValid, kind) ==
    LET fWritesUndo == pindexNew # GenesisId /\ ~s.idx[pindexNew].nStatus.haveUndo
        s1 == ConnectBlockIndexUpdate(s, pindexNew)
    IN  IF kind = "read" THEN AbortNode(s, kind)
        ELSE IF ~fValid THEN Outcome(InvalidBlockFound(s, pindexNew), FALSE, "invalid", FALSE,
                                     "consensus")
        ELSE IF kind = "undo" /\ fWritesUndo
        THEN AbortNode([s EXCEPT !.files.nUndoSize = s.files.nUndoSize + 1], kind)
        ELSE IF kind = "flush"
        THEN AbortNode([s1 EXCEPT !.coins = [best |-> pindexNew,
                                             applied |-> s1.coins.applied \cup {pindexNew}]],
                       kind)
        ELSE Outcome(ConnectTip(s, pindexNew, fValid).s, TRUE, "valid", FALSE, "none")

\* ActivateBestChainStep: the loop that disconnects down to the fork point
RECURSIVE DisconnectToForkOutcome(_, _, _)
DisconnectToForkOutcome(s, pindexFork, fault) ==
    IF Tip(s.chain) = Null \/ Tip(s.chain) = pindexFork
    THEN Outcome(s, TRUE, "valid", FALSE, "none")
    ELSE LET r == DisconnectTipOutcome(s, Striking(s, fault))
         IN  IF ~r.ok THEN r ELSE DisconnectToForkOutcome(r.s, pindexFork, fault)

\* ActivateBestChainStep: the loop over vpindexToConnect, lowest height first
RECURSIVE ConnectNewBlocksOutcome(_, _, _, _, _)
ConnectNewBlocksOutcome(s, vpindexToConnect, pindexOldTip, blk, fault) ==
    IF vpindexToConnect = <<>> THEN Outcome(s, TRUE, "valid", FALSE, "none")
    ELSE LET pindexConnect == Head(vpindexToConnect)
             r == ConnectTipOutcome(s, pindexConnect, blk[pindexConnect].fValid,
                                    Striking(s, fault))
         IN  IF ~r.ok
             THEN IF r.mode = "invalid" THEN Outcome(r.s, TRUE, "valid", FALSE, "consensus")
                  ELSE r
             ELSE LET s1 == PruneBlockIndexCandidates(r.s)
                  IN  IF StopConnecting(s1, pindexOldTip)
                      THEN Outcome(s1, TRUE, "valid", FALSE, "none")
                      ELSE ConnectNewBlocksOutcome(s1, Tail(vpindexToConnect), pindexOldTip,
                                                   blk, fault)

\* ActivateBestChainStep(state, pindexMostWork, ...) where a fault may strike
ActivateBestChainStepOutcome(s, pindexMostWork, blk, fault) ==
    LET pindexOldTip == Tip(s.chain)
        pindexFork == FindFork(s.idx, s.chain, pindexMostWork)
        d == DisconnectToForkOutcome(s, pindexFork, fault)
        nHeight == IF pindexFork = Null THEN -1 ELSE s.idx[pindexFork].nHeight
        path == PathTo(s.idx, pindexMostWork)
        vpindexToConnect == SubSeq(path, nHeight + 2, Len(path))
    IN  IF ~d.ok THEN d
        ELSE ConnectNewBlocksOutcome(d.s, vpindexToConnect, pindexOldTip, blk, fault)

(***************************************************************************)
(* InvalidateBlock and ReconsiderBlock, called under cs_main by the RPC    *)
(* commands of the operator; ReconsiderBlock is also called by             *)
(* ReprocessBlocks and by AcceptBlock for a failed parent that matches a   *)
(* checkpoint.                                                             *)
(***************************************************************************)
\* A walk down the active chain that disconnects the blocks without flagging them.
RECURSIVE InvalidateWalk_NoFlag(_, _, _)
InvalidateWalk_NoFlag(s, pindex, fault) ==
    IF ~Contains(s.idx, s.chain, pindex) THEN Outcome(s, TRUE, "valid", FALSE, "none")
    ELSE LET r == DisconnectTipOutcome(s, Striking(s, fault))
         IN  IF ~r.ok THEN r ELSE InvalidateWalk_NoFlag(r.s, pindex, fault)

\* InvalidateBlock: the loop that walks the active chain down below pindex
RECURSIVE InvalidateWalk(_, _, _)
InvalidateWalk(s, pindex, fault) ==
    IF ~Contains(s.idx, s.chain, pindex) THEN Outcome(s, TRUE, "valid", FALSE, "none")
    ELSE LET pindexWalk == Tip(s.chain)
             s1 == [s EXCEPT !.idx[pindexWalk].nStatus.failedChild = TRUE,
                             !.cand = s.cand \ {pindexWalk}]
             r == DisconnectTipOutcome(s1, Striking(s1, fault))
         IN  IF ~r.ok THEN r ELSE InvalidateWalk(r.s, pindex, fault)

\* InvalidateBlock(state, pindex) for a block other than the genesis block
InvalidateBlock(s, pindex, fault) ==
    LET s0 == [s EXCEPT !.idx[pindex].nStatus.failedValid = TRUE,
                        !.cand = s.cand \ {pindex}]
        w == InvalidateWalk(s0, pindex, fault)
        back == {p \in DOMAIN w.s.idx :
                    /\ IsValid(w.s.idx[p], BLOCK_VALID_TRANSACTIONS)
                    /\ w.s.idx[p].nChainTx # 0
                    /\ ~CBlockIndexWorkComparator(w.s.idx, p, Tip(w.s.chain))}
    IN  IF ~w.ok THEN w
        ELSE Outcome([w.s EXCEPT !.cand = w.s.cand \cup back], TRUE, "valid", FALSE, "none")

\* CBlockIndex::GetAncestor(height)
GetAncestor(idx, p, height) ==
    IF height < 0 \/ height > idx[p].nHeight THEN Null ELSE PathTo(idx, p)[height + 1]

\* nStatus &= ~BLOCK_FAILED_MASK
ClearFailed(n) == [n EXCEPT !.nStatus.failedValid = FALSE, !.nStatus.failedChild = FALSE]

\* A ReconsiderBlock that clears the failure flags of every node of the index.
ReconsiderBlock_All(s, pindex) ==
    [s EXCEPT !.idx = [p \in DOMAIN s.idx |-> ClearFailed(s.idx[p])]]

\* ReconsiderBlock(state, pindex), the active chain having a tip
ReconsiderBlock(s, pindex) ==
    LET nHeight == s.idx[pindex].nHeight
        desc == {p \in DOMAIN s.idx :
                    /\ ~IsValid(s.idx[p], BLOCK_VALID_TRANSACTIONS)
                    /\ GetAncestor(s.idx, p, nHeight) = pindex}
        path == PathTo(s.idx, pindex)
        anc == {path[i] : i \in 1..Len(path)}
        idx1 == [p \in DOMAIN s.idx |->
                    IF p \in desc \cup anc THEN ClearFailed(s.idx[p]) ELSE s.idx[p]]
        add == {p \in desc : /\ IsValid(idx1[p], BLOCK_VALID_TRANSACTIONS)
                             /\ idx1[p].nChainTx # 0
                             /\ CBlockIndexWorkComparator(idx1, Tip(s.chain), p)}
    IN  [s EXCEPT !.idx = idx1, !.cand = s.cand \cup add]

(***************************************************************************)
(* The chain machine with local faults and with the commands of the        *)
(* operator.  A node that has requested its shutdown does nothing more.    *)
(***************************************************************************)
\* Number of blocks other than the genesis block in the runs with faults.
MaxFaultBlocks == 2
\* The latest tip operation of a step that a local fault may strike.
MaxFaultAt == 2

StepFaults ==
    {NoFault} \cup {[at |-> k, kind |-> kind] : k \in 1..MaxFaultAt, kind \in LocalFaultKinds}

\* StartShutdown has been called.
Halted == "fShutdown" \in DOMAIN lastOp /\ lastOp.fShutdown

\* The tip at the moment the ActivateBestChain call that is in progress was made:
\* the tip the first of its steps started from.
AttemptTip ==
    IF "pindexOldTip" \in DOMAIN lastOp /\ lastOp.reason = "again"
    THEN lastOp.pindexOldTip
    ELSE Tip(chainActive)

\* ActivateBestChain, one pass under cs_main that runs ActivateBestChainStep, a
\* local fault striking or not: the call returns false when the step does, and true
\* when the tip is the node aimed at
ActivateBestChain_Pass ==
    /\ abcRunning
    /\ LET f == FindMostWorkChain(ChainState)
       IN  /\ f.ret # Null
           /\ f.ret # Tip(f.s.chain)
           /\ \E fault \in StepFaults :
                 LET r == ActivateBestChainStepOutcome(f.s, f.ret, blocks, fault)
                     done == r.ok /\ Tip(r.s.chain) = f.ret
                 IN  /\ fault = NoFault \/ r.failure = fault.kind
                     /\ SetChainState(r.s)
                     /\ abcRunning' = (r.ok /\ ~done)
                     /\ settled' = done
                     /\ lastOp' = [op |-> "ActivateBestChainStep", ret |-> r.ok,
                                   reason |-> IF done THEN "tip reached"
                                              ELSE IF r.ok THEN "again" ELSE "local fault",
                                   mode |-> r.mode, fShutdown |-> r.fShutdown,
                                   failure |-> r.failure, pindexOldTip |-> AttemptTip,
                                   pindexMostWork |-> f.ret]
                     /\ stepOps' = r.s.ops
    /\ UNCHANGED <<blocks, nRestarts, coinVars>>

\* The operator invalidates a block other than the genesis block.
InvalidateBlock_Call ==
    /\ Tip(chainActive) # Null
    /\ \E pindex \in DOMAIN mapBlockIndex \ {GenesisId}, fault \in StepFaults :
          LET r == InvalidateBlock(ChainState, pindex, fault)
          IN  /\ fault = NoFault \/ r.failure = fault.kind
              /\ SetChainState(r.s)
              /\ lastOp' = [op |-> "InvalidateBlock", ret |-> r.ok,
                            reason |-> IF r.ok THEN "" ELSE "local fault",
                            mode |-> r.mode, fShutdown |-> r.fShutdown,
                            failure |-> r.failure, pindex |-> pindex]
              /\ stepOps' = r.s.ops
    /\ settled' = FALSE
    /\ UNCHANGED <<abcRunning, blocks, nRestarts, coinVars>>

\* ReconsiderBlock is called for a block of the index.
ReconsiderBlock_Call ==
    /\ Tip(chainActive) # Null
    /\ \E pindex \in DOMAIN mapBlockIndex :
          /\ SetChainState(ReconsiderBlock(ChainState, pindex))
          /\ lastOp' = [op |-> "ReconsiderBlock", ret |-> TRUE, reason |-> "",
                        mode |-> "valid", fShutdown |-> FALSE, failure |-> "none",
                        pindex |-> pindex]
    /\ settled' = FALSE
    /\ stepOps' = <<>>
    /\ UNCHANGED <<abcRunning, blocks, nRestarts, coinVars>>

NextFaults ==
    \/ ~Halted /\ ProcessNewBlock_New(MaxFaultBlocks)
    \/ ~Halted /\ ProcessNewBlock_Known
    \/ ~Halted /\ ActivateBestChain_Call
    \/ ~Halted /\ ActivateBestChain_Done
    \/ ~Halted /\ ActivateBestChain_Pass
    \/ ~Halted /\ InvalidateBlock_Call
    \/ ~Halted /\ ReconsiderBlock_Call

SpecFaults == Init /\ [][NextFaults]_vars

(***************************************************************************)
(* Flushing and crashing.  WriteBlockToDisk and UndoWriteToDisk write to   *)
(* a file without committing it; FlushBlockFile commits the block file and *)
(* the undo file numbered nLastBlockFile.  FlushStateToDisk is followed    *)
(* step by step: flushPc.pc is "files" before FlushBlockFile, "index"      *)
(* before WriteBatchSync, "coins" before pcoinsTip->Flush() and "idle"     *)
(* outside.  A crash keeps what was committed and any part of what was     *)
(* written only; the two databases are written in atomic batches.  The tip *)
(* operations are those of ActivateBestChain, one at a time.               *)
(***************************************************************************)
\* Number of blocks that may be created above the genesis block in these runs.
MaxFlushBlocks == 2
\* The highest number a block file may get.
MaxBlockFile == 1

poolVars == <<cacheCoins, hashBlock, vConnected, mapTx, mapNextTx, coinOp, chainParams,
              threadVars>>

\* FlushBlockFile(): the block data and undo data in the files numbered last are committed
FlushBlockFile(files, file, last) ==
    [files EXCEPT !.blk.committed = @ \cup {b \in files.blk.written : file[b] = last},
                  !.rev.committed = @ \cup {b \in files.rev.written : file[b] = last}]

\* A batch that fails to reach the database.
WriteBatchSync_Nothing(db, idx, file, last, vBlocks) == db

\* pblocktree->WriteBatchSync(vFiles, nLastBlockFile, vBlocks): the database after it
WriteBatchSync(db, idx, file, last, vBlocks) ==
    [idx |-> [p \in DOMAIN db.idx \cup vBlocks |->
                 IF p \in vBlocks THEN DiskIndex(idx)[p] ELSE db.idx[p]],
     nFile |-> [p \in DOMAIN db.idx \cup vBlocks |->
                 IF p \in vBlocks THEN file[p] ELSE db.nFile[p]],
     nLastBlockFile |-> last]

\* FlushStateToDisk returns inside ConnectTip or DisconnectTip, which goes on to
\* UpdateTip(tip); after a ConnectTip, ActivateBestChainStep prunes the candidates
AfterFlush(op, tip) ==
    LET s1 == [ChainState EXCEPT !.chain = SetTip(mapBlockIndex, tip)]
    IN  /\ chainActive' = IF op \in {"connect", "disconnect"} THEN s1.chain ELSE chainActive
        /\ setBlockIndexCandidates' = IF op = "connect"
                                      THEN PruneBlockIndexCandidates(s1).cand
                                      ELSE setBlockIndexCandidates
        /\ flushPc' = IdleFlush

\* FlushStateToDisk is entered with fDoFullFlush or fPeriodicWrite set
EnterFlush(op, tip, fDoFullFlush) ==
    flushPc' = [pc |-> "files", fDoFullFlush |-> fDoFullFlush, tip |-> tip, op |-> op]

\* AcceptBlock for a new block: FindBlockPos, which leaves the file when fFull says
\* that the block does not fit, then WriteBlockToDisk and ReceivedBlockTransactions
Flush_AcceptBlock ==
    /\ flushPc.pc = "idle"
    /\ Cardinality(DOMAIN blocks) <= MaxFlushBlocks
    /\ \E par \in DOMAIN mapBlockIndex, work \in WorkValues, fValid \in BOOLEAN,
          fFull \in BOOLEAN :
          LET b == Cardinality(DOMAIN blocks)
              blk == [x \in DOMAIN blocks \cup {b} |->
                         IF x = b THEN [pprev |-> par, work |-> work, fValid |-> fValid,
                                        fChecks |-> TRUE]
                         ELSE blocks[x]]
              a == AcceptBlock(ChainState, b, blk, "none")
              fLeave == fFull /\ nLastBlockFile < MaxBlockFile
              files1 == IF fLeave THEN FlushBlockFile(diskFiles, nFile, nLastBlockFile)
                        ELSE diskFiles
              last1 == IF fLeave THEN nLastBlockFile + 1 ELSE nLastBlockFile
          IN  /\ SetChainState(a.s)
              /\ blocks' = blk
              /\ lastOp' = [op |-> "AcceptBlock", ret |-> a.ret, reason |-> a.reason]
              /\ IF a.reason = "stored"
                 THEN /\ nLastBlockFile' = last1
                      /\ nFile' = [x \in DOMAIN nFile \cup {b} |->
                                      IF x = b THEN last1 ELSE nFile[x]]
                      /\ diskFiles' = [files1 EXCEPT !.blk.written = @ \cup {b}]
                      /\ setDirtyBlockIndex' = setDirtyBlockIndex \cup {b}
                 ELSE UNCHANGED <<nLastBlockFile, nFile, diskFiles, setDirtyBlockIndex>>
    /\ UNCHANGED <<pblocktree, pcoinsdbview, flushPc, nRestarts, abcRunning, settled,
                   stepOps, poolVars>>

\* ActivateBestChain has a tip operation to do: DisconnectTip when the tip is not
\* on the path to the chain with most work, else ConnectTip of the next block on
\* that path.  fCacheCritical is what FlushStateToDisk finds in FLUSH_STATE_IF_NEEDED.
Flush_TipOperation ==
    /\ flushPc.pc = "idle"
    /\ \E fCacheCritical \in BOOLEAN :
          LET f == FindMostWorkChain(ChainState)
              pindexFork == FindFork(f.s.idx, f.s.chain, f.ret)
              tip == Tip(f.s.chain)
          IN  /\ f.ret # Null
              /\ f.ret # tip
              /\ IF tip # pindexFork
                 THEN LET s1 == DisconnectTip(f.s)
                      IN  /\ SetChainState([s1 EXCEPT !.chain = f.s.chain])
                          /\ EnterFlush("disconnect", f.s.idx[tip].pprev, TRUE)
                          /\ lastOp' = [op |-> "DisconnectTip", ret |-> TRUE, reason |-> ""]
                          /\ UNCHANGED <<diskFiles, setDirtyBlockIndex>>
                 ELSE LET path == PathTo(f.s.idx, f.ret)
                          p == path[Len(f.s.chain) + 1]
                          r == ConnectTip(f.s, p, blocks[p].fValid)
                          fUndo == p # GenesisId /\ ~f.s.idx[p].nStatus.haveUndo
                          fAlways == f.s.idx[p].pprev # Null /\ nFile[p] # nFile[f.s.idx[p].pprev]
                          fWrite == /\ p # GenesisId
                                    /\ \/ ~f.s.idx[p].nStatus.haveUndo
                                       \/ ~IsValid(f.s.idx[p], BLOCK_VALID_SCRIPTS)
                          fDoFullFlush == fAlways \/ fCacheCritical
                      IN  /\ lastOp' = [op |-> "ConnectTip", ret |-> r.ok, reason |-> ""]
                          /\ setDirtyBlockIndex' = IF ~r.ok \/ fWrite
                                                   THEN setDirtyBlockIndex \cup {p}
                                                   ELSE setDirtyBlockIndex
                          /\ diskFiles' = IF r.ok /\ fUndo
                                          THEN [diskFiles EXCEPT !.rev.written = @ \cup {p}]
                                          ELSE diskFiles
                          /\ IF r.ok /\ fDoFullFlush
                             THEN /\ SetChainState([r.s EXCEPT !.chain = f.s.chain])
                                  /\ EnterFlush("connect", p, TRUE)
                             ELSE /\ SetChainState(IF r.ok THEN PruneBlockIndexCandidates(r.s)
                                                   ELSE r.s)
                                  /\ UNCHANGED flushPc
    /\ UNCHANGED <<nLastBlockFile, nFile, pblocktree, pcoinsdbview, blocks, nRestarts,
                   abcRunning, settled, stepOps, poolVars>>

\* ActivateBestChain finds nothing more to do and calls
\* FlushStateToDisk(FLUSH_STATE_PERIODIC), which finds fPeriodicWrite set, and
\* fDoFullFlush as well when fFull says so
Flush_Periodic ==
    /\ flushPc.pc = "idle"
    /\ \E fFull \in BOOLEAN :
          LET f == FindMostWorkChain(ChainState)
          IN  /\ f.ret = Null \/ f.ret = Tip(f.s.chain)
              /\ SetChainState(f.s)
              /\ EnterFlush("periodic", Tip(f.s.chain), fFull)
    /\ lastOp' = [op |-> "ActivateBestChain", ret |-> TRUE, reason |-> "nothing to do"]
    /\ UNCHANGED <<nLastBlockFile, nFile, diskFiles, pblocktree, pcoinsdbview,
                   setDirtyBlockIndex, blocks, nRestarts, abcRunning, settled, stepOps,
                   poolVars>>

\* FlushStateToDisk: FlushBlockFile()
FlushStateToDisk_Files ==
    /\ flushPc.pc = "files"
    /\ diskFiles' = FlushBlockFile(diskFiles, nFile, nLastBlockFile)
    /\ flushPc' = [flushPc EXCEPT !.pc = "index"]
    /\ lastOp' = [op |-> "FlushBlockFile", ret |-> TRUE, reason |-> ""]
    /\ UNCHANGED <<mapBlockIndex, chainActive, setBlockIndexCandidates, mapBlocksUnlinked,
                   nBlockSequenceId, pcoinsTip, vinfoBlockFile, blocks, nRestarts,
                   abcRunning, settled, stepOps, nLastBlockFile, nFile, pblocktree,
                   pcoinsdbview, setDirtyBlockIndex, poolVars>>

\* FlushStateToDisk: the dirty index entries and the number of the last file are
\* written in one batch; without fDoFullFlush the function returns here
FlushStateToDisk_Index ==
    /\ flushPc.pc = "index"
    /\ pblocktree' = WriteBatchSync(pblocktree, mapBlockIndex, nFile, nLastBlockFile,
                                    setDirtyBlockIndex)
    /\ setDirtyBlockIndex' = {}
    /\ IF flushPc.fDoFullFlush
       THEN /\ flushPc' = [flushPc EXCEPT !.pc = "coins"]
            /\ UNCHANGED <<chainActive, setBlockIndexCandidates>>
       ELSE AfterFlush(flushPc.op, flushPc.tip)
    /\ lastOp' = [op |-> "WriteBatchSync", ret |-> TRUE, reason |-> ""]
    /\ UNCHANGED <<mapBlockIndex, mapBlocksUnlinked, nBlockSequenceId, pcoinsTip,
                   vinfoBlockFile, blocks, nRestarts, abcRunning, settled, stepOps,
                   nLastBlockFile, nFile, diskFiles, pcoinsdbview, poolVars>>

\* FlushStateToDisk: pcoinsTip->Flush(), after which the function returns
FlushStateToDisk_Coins ==
    /\ flushPc.pc = "coins"
    /\ pcoinsdbview' = pcoinsTip
    /\ AfterFlush(flushPc.op, flushPc.tip)
    /\ lastOp' = [op |-> "FlushStateToDisk", ret |-> TRUE, reason |-> ""]
    /\ UNCHANGED <<mapBlockIndex, mapBlocksUnlinked, nBlockSequenceId, pcoinsTip,
                   vinfoBlockFile, blocks, nRestarts, abcRunning, settled, stepOps,
                   nLastBlockFile, nFile, diskFiles, pblocktree, setDirtyBlockIndex,
                   poolVars>>

\* The files after a crash: of the data written but not committed, keepBlk and
\* keepRev have reached the disk.  Data of blocks that the loaded index does not
\* know (the set known has the others) is never read again and is left out.
CrashedFiles(files, known, keepBlk, keepRev) ==
    [blk |-> [written |-> (files.blk.committed \cup keepBlk) \cap known,
              committed |-> (files.blk.committed \cup keepBlk) \cap known],
     rev |-> [written |-> (files.rev.committed \cup keepRev) \cap known,
              committed |-> (files.rev.committed \cup keepRev) \cap known]]

\* The process crashes, anywhere, and is started again: LoadBlockIndexDB reads the
\* two databases.  When that leaves the active chain empty, InitBlockIndex stores
\* the genesis block once more and calls FlushStateToDisk(FLUSH_STATE_ALWAYS).
\* lastOp.crashedAt keeps where in FlushStateToDisk the crash came.
Crash ==
    /\ nRestarts < MaxRestarts
    /\ \E keepBlk \in SUBSET (diskFiles.blk.written \ diskFiles.blk.committed),
          keepRev \in SUBSET (diskFiles.rev.written \ diskFiles.rev.committed),
          perm \in HeapOrders(DOMAIN pblocktree.idx) :
          LET files1 == CrashedFiles(diskFiles, DOMAIN pblocktree.idx, keepBlk, keepRev)
              s0 == [EmptyChainState EXCEPT !.idx = pblocktree.idx, !.coins = pcoinsdbview,
                                            !.files = vinfoBlockFile]
              s1 == LoadBlockIndexDB(s0, blocks, perm, {})
          IN  IF s1.chain # <<>>
              THEN /\ SetChainState(s1)
                   /\ diskFiles' = files1
                   /\ nFile' = pblocktree.nFile
                   /\ setDirtyBlockIndex' = {}
                   /\ flushPc' = IdleFlush
              ELSE /\ SetChainState(StoreBlock(s1, GenesisId))
                   /\ diskFiles' = [files1 EXCEPT !.blk.written = @ \cup {GenesisId}]
                   /\ nFile' = [pblocktree.nFile EXCEPT ![GenesisId] = pblocktree.nLastBlockFile]
                   /\ setDirtyBlockIndex' = {GenesisId}
                   /\ EnterFlush("init", Null, TRUE)
    /\ nLastBlockFile' = pblocktree.nLastBlockFile
    /\ nRestarts' = nRestarts + 1
    /\ lastOp' = [op |-> "LoadBlockIndexDB", ret |-> TRUE, reason |-> "loaded",
                  crashedAt |-> flushPc.pc]
    /\ UNCHANGED <<pblocktree, pcoinsdbview, blocks, abcRunning, settled, stepOps, poolVars>>

NextFlush ==
    \/ Flush_AcceptBlock
    \/ Flush_TipOperation
    \/ Flush_Periodic
    \/ FlushStateToDisk_Files
    \/ FlushStateToDisk_Index
    \/ FlushStateToDisk_Coins
    \/ Crash

SpecFlush == Init /\ [][NextFlush]_vars

(***************************************************************************)
(* What an observer reads off a block or a transaction and the view it is  *)
(* offered to, without running the validation code.                        *)
(***************************************************************************)
\* A depth larger than any depth of the runs, for "spends no reward".
NoDepth == MEMPOOL_HEIGHT - 1

\* The coin that outpoint o names for transaction i of the block at height nHeight:
\* a coin of the view, or an output of an earlier transaction of the block.
ResolveCoin(block, view, nHeight, i, o) ==
    IF o \in DOMAIN view.cacheCoins THEN view.cacheCoins[o]
    ELSE IF \E k \in 1..(i - 1) : block.vtx[k] = o.hash /\ o.n < Len(block.vtx[k].vout)
    THEN [out |-> o.hash.vout[o.n + 1], nHeight |-> nHeight,
          fCoinBase |-> o.hash.type = "coinbase", fCoinStake |-> o.hash.type = "coinstake"]
    ELSE EmptyCoin

\* The inputs of the block as pairs <<i, j>>: input j of transaction i.
BlockInputs(block) ==
    {ij \in (1..Len(block.vtx)) \X (1..2) : ij[2] <= Len(block.vtx[ij[1]].vin)}

RECURSIVE SumOf(_, _)
SumOf(f, S) ==
    IF S = {} THEN 0
    ELSE LET x == CHOOSE y \in S : TRUE IN f[x] + SumOf(f, S \ {x})

Min(S) == CHOOSE x \in S : \A y \in S : x <= y

\* Totals of the block at height nHeight offered to the view.
BlockFacts(block, view, nHeight) ==
    LET ins == BlockInputs(block)
        coin == [ij \in ins |->
                    ResolveCoin(block, view, nHeight, ij[1], block.vtx[ij[1]].vin[ij[2]])]
        depths == {nHeight - coin[ij].nHeight :
                      ij \in {x \in ins : coin[x].fCoinBase \/ coin[x].fCoinStake}}
        nOut == SumOf([i \in 1..Len(block.vtx) |-> GetValueOut(block.vtx[i])],
                      1..Len(block.vtx))
        nIn == SumOf([ij \in ins |-> coin[ij].out.nValue], ins)
        normal == {i \in 1..Len(block.vtx) : block.vtx[i].type = "normal"}
        nInNormal == SumOf([ij \in ins |-> IF ij[1] \in normal THEN coin[ij].out.nValue ELSE 0],
                           ins)
        nOutNormal == SumOf([i \in normal |-> GetValueOut(block.vtx[i])], normal)
    IN  [nHeight |-> nHeight,
         fPoS |-> Len(block.vtx) > 1 /\ block.vtx[2].type = "coinstake",
         nOut |-> nOut,
         nIn |-> nIn,
         nFees |-> nInNormal - nOutNormal,
         fInputsOk |-> /\ \A ij \in ins : ~IsSpent(coin[ij])
                       /\ \A x, y \in ins :
                             x # y => block.vtx[x[1]].vin[x[2]] # block.vtx[y[1]].vin[y[2]],
         nMinDepth |-> IF depths = {} THEN NoDepth ELSE Min(depths)]

\* What is known of transaction tx offered to the pool on top of the view.
TxFacts(pool, view, tx, fStandard, fFeeOk) ==
    LET spendHeight == view.hashBlock + 1
        avail(o) == \/ o \in DOMAIN view.cacheCoins
                    \/ \E t \in pool.mapTx : o.hash = t /\ o.n < Len(t.vout)
        rewards == {i \in 1..Len(tx.vin) :
                       /\ tx.vin[i] \in DOMAIN view.cacheCoins
                       /\ \/ view.cacheCoins[tx.vin[i]].fCoinBase
                          \/ view.cacheCoins[tx.vin[i]].fCoinStake}
        valueOf(o) == IF o \in DOMAIN view.cacheCoins THEN view.cacheCoins[o].out.nValue
                      ELSE IF avail(o) THEN o.hash.vout[o.n + 1].nValue ELSE 0
    IN  [fLoose |-> tx.type = "normal",
         fNew |-> tx \notin pool.mapTx,
         fConflict |-> \E t \in pool.mapTx \ {tx} : \E i \in 1..Len(t.vin), j \in 1..Len(tx.vin) :
                           t.vin[i] = tx.vin[j],
         fKnown |-> \E n \in 0..(Len(tx.vout) - 1) : avail(COutPoint(GetHash(tx), n)),
         fInputsAvail |-> \A i \in 1..Len(tx.vin) : avail(tx.vin[i]),
         nFee |-> SumOf([i \in 1..Len(tx.vin) |-> valueOf(tx.vin[i])], 1..Len(tx.vin))
                     - GetValueOut(tx),
         fStandard |-> fStandard,
         fFeeOk |-> fFeeOk,
         pool |-> pool,
         nMinDepth |-> IF rewards = {} THEN NoDepth
                       ELSE Min({spendHeight - view.cacheCoins[tx.vin[i]].nHeight :
                                    i \in rewards})]

(***************************************************************************)
(* The blocks and the transactions offered to the coin machine.            *)
(***************************************************************************)
\* The transactions that spend one coin of the view and pay a fee of the set fees.
Spends(view, fees) ==
    {SpendTx(<<o>>, view.cacheCoins[o].out.nValue, f) : o \in DOMAIN view.cacheCoins, f \in fees}

\* The transaction that spends the output of transaction t and pays the fee f.
ChildTx(t, f) == SpendTx(<<COutPoint(GetHash(t), 0)>>, t.vout[1].nValue, f)

\* Lists of transactions for a block: none, one spend, a spend with its child, and two
\* spends, among them two spends of the same coin.
TxLists(view) ==
    {<<>>} \cup {<<t>> : t \in Spends(view, {0, 1})}
        \cup {<<t, ChildTx(t, 0)>> : t \in Spends(view, {1})}
        \cup {<<t, u>> : t \in Spends(view, {1}), u \in Spends(view, {0})}

\* Lists of at most one transaction: of the pool, or a spend of a coin of the view.
ShortTxLists(view, pool) ==
    {<<>>} \cup {<<t>> : t \in pool.mapTx \cup Spends(view, {1})}

RECURSIVE ListFees(_, _)
ListFees(view, list) ==
    IF list = <<>> THEN 0
    ELSE LET tx == Head(list)
         IN  (IF \A i \in 1..Len(tx.vin) : HaveCoin(view, tx.vin[i])
              THEN GetValueIn(view, tx) - GetValueOut(tx) ELSE 0)
                 + ListFees(view, Tail(list))

\* The genesis block of the network.
GenesisVtx ==
    [vtx |-> <<CoinBaseTx(0, [nValue |-> 250 * COIN, scriptPubKey |-> "p2pk"])>>]

\* The blocks offered at height nHeight on the view: proof-of-work blocks whose
\* coinbase pays the block value and the fees of the list plus d, and proof-of-stake
\* blocks whose coinstake mints the block value plus d, for d in deltas.
BlocksOn(view, nHeight, params, lists, deltas) ==
    IF nHeight = 0 THEN {GenesisVtx}
    ELSE LET R == GetBlockValue(nHeight, params)
         IN  {[vtx |-> <<CoinBaseTx(nHeight, [nValue |-> R + ListFees(view, l) + d,
                                              scriptPubKey |-> "p2pkh"])>> \o l] :
                 l \in lists, d \in deltas}
             \cup
             {[vtx |-> <<CoinBaseTx(nHeight, EmptyTxOut),
                         CoinStakeTx(o, view.cacheCoins[o].out.nValue, R + d)>> \o l] :
                 o \in DOMAIN view.cacheCoins, d \in deltas,
                 l \in {x \in lists : Len(x) <= 1}}

\* A transaction whose input is an output nobody has seen.
OrphanTx ==
    SpendTx(<<COutPoint(OldTx("normal", 0, [nValue |-> 5, scriptPubKey |-> "p2pkh"]), 0)>>, 5, 1)

\* The transactions of the blocks connected in the run.
MinedTxs ==
    UNION {{vConnected[k].block.vtx[i] : i \in 1..Len(vConnected[k].block.vtx)} :
              k \in 1..Len(vConnected)}

\* The transactions offered to the pool.
PoolTxs(view, pool) ==
    LET mem == CCoinsViewMemPool(view, pool)
        coins == DOMAIN mem.cacheCoins
    IN  Spends(mem, {0, 1, 2})
            \cup {OrphanTx, CoinBaseTx(view.hashBlock + 1, [nValue |-> 1, scriptPubKey |-> "p2pkh"])}
            \cup {CoinStakeTx(o, mem.cacheCoins[o].out.nValue, 1) : o \in coins}
            \cup MinedTxs

(***************************************************************************)
(* The actions of the coin machine.                                        *)
(***************************************************************************)
SetView(view) ==
    /\ cacheCoins' = view.cacheCoins
    /\ hashBlock' = view.hashBlock

SetPool(pool) ==
    /\ mapTx' = pool.mapTx
    /\ mapNextTx' = pool.mapNextTx

\* No call into the coin machine is in progress.
NoCoinOp == [op |-> "none", ret |-> TRUE, reason |-> "", fJustCheck |-> FALSE, facts |-> <<>>]

\* The call in progress returns to its caller, who has read its outcome.
CoinOp_Return ==
    /\ coinOp # NoCoinOp
    /\ coinOp' = NoCoinOp
    /\ UNCHANGED <<chainVars, chainParams, cacheCoins, hashBlock, vConnected, mapTx, mapNextTx>>

\* ConnectBlock(block, state, pindex, view, false) for a block of the set B built on
\* the best block of the view, on a cache of the view that is flushed when the call
\* returns true and dropped when it returns false
ConnectBlock_Call(B) ==
    /\ coinOp = NoCoinOp
    /\ Len(vConnected) < MaxConnected
    /\ \E block \in B, fLessOk \in BOOLEAN :
          LET nHeight == hashBlock + 1
              r == ConnectBlock(block, nHeight, View, FALSE, chainParams, fLessOk)
          IN  /\ SetView(r.view)
              /\ vConnected' = IF r.ok /\ nHeight > 0
                               THEN Append(vConnected, [block |-> block, vtxundo |-> r.vtxundo,
                                                        before |-> View])
                               ELSE vConnected
              /\ coinOp' = [op |-> "ConnectBlock", ret |-> r.ok, reason |-> r.reason,
                            fJustCheck |-> FALSE,
                            facts |-> BlockFacts(block, View, nHeight)]
    /\ UNCHANGED <<chainVars, chainParams, mapTx, mapNextTx>>

\* DisconnectBlock(block, pindex, view) for the best block of the view, on a cache of
\* the view that is flushed when the result is DISCONNECT_OK
DisconnectBlock_Call ==
    /\ coinOp = NoCoinOp
    /\ vConnected # <<>>
    /\ LET top == vConnected[Len(vConnected)]
           r == DisconnectBlock(top.block, hashBlock, View, top.vtxundo)
           ok == r.res = "DISCONNECT_OK"
       IN  /\ SetView(IF ok THEN r.view ELSE View)
           /\ vConnected' = IF ok THEN SubSeq(vConnected, 1, Len(vConnected) - 1)
                            ELSE vConnected
           /\ coinOp' = [op |-> "DisconnectBlock", ret |-> ok, reason |-> r.res,
                         fJustCheck |-> FALSE,
                            facts |-> [block |-> top.block, before |-> top.before]]
    /\ UNCHANGED <<chainVars, chainParams, mapTx, mapNextTx>>

\* ConnectTip on pcoinsTip and mempool, for a block of the set B built on the tip:
\* ConnectBlock on a cache of the view, flushed when it succeeds, then removeForBlock
ConnectTip_Coins(B) ==
    /\ coinOp = NoCoinOp
    /\ Len(vConnected) < MaxPoolBlocks
    /\ \E block \in B, fLessOk \in BOOLEAN :
          LET nHeight == hashBlock + 1
              r == ConnectBlock(block, nHeight, View, FALSE, chainParams, fLessOk)
          IN  /\ SetView(r.view)
              /\ SetPool(IF r.ok THEN removeForBlock(Pool, block.vtx) ELSE Pool)
              /\ vConnected' = IF r.ok /\ nHeight > 0
                               THEN Append(vConnected, [block |-> block, vtxundo |-> r.vtxundo,
                                                        before |-> View])
                               ELSE vConnected
              /\ coinOp' = [op |-> "ConnectBlock", ret |-> r.ok, reason |-> r.reason,
                            fJustCheck |-> FALSE,
                            facts |-> BlockFacts(block, View, nHeight)]
    /\ UNCHANGED <<chainVars, chainParams>>

\* A TestBlockValidity that flushes the cache it connected the block on.
TestBlockValidity_Flushed(B) ==
    /\ coinOp = NoCoinOp
    /\ hashBlock >= 0
    /\ Len(vConnected) < MaxConnected
    /\ \E block \in B, fLessOk \in BOOLEAN :
          LET nHeight == hashBlock + 1
              r == ConnectBlock(block, nHeight, View, FALSE, chainParams, fLessOk)
          IN  /\ SetView(r.view)
              /\ coinOp' = [op |-> "ConnectBlock", ret |-> r.ok, reason |-> r.reason,
                            fJustCheck |-> TRUE,
                            facts |-> BlockFacts(block, View, nHeight)]
    /\ UNCHANGED <<chainVars, chainParams, vConnected, mapTx, mapNextTx>>

\* TestBlockValidity for a block of the set B built on the tip: ConnectBlock, just
\* checking, on a cache of the view that is thrown away
TestBlockValidity_Coins(B) ==
    /\ coinOp = NoCoinOp
    /\ hashBlock >= 0
    /\ Len(vConnected) < MaxConnected
    /\ \E block \in B, fLessOk \in BOOLEAN :
          LET nHeight == hashBlock + 1
              r == ConnectBlock(block, nHeight, View, TRUE, chainParams, fLessOk)
          IN  /\ SetView(r.view)
              /\ coinOp' = [op |-> "ConnectBlock", ret |-> r.ok, reason |-> r.reason,
                            fJustCheck |-> TRUE,
                            facts |-> BlockFacts(block, View, nHeight)]
    /\ UNCHANGED <<chainVars, chainParams, vConnected, mapTx, mapNextTx>>

\* DisconnectTip on pcoinsTip and mempool: DisconnectBlock on a cache of the view,
\* flushed when the result is DISCONNECT_OK, then the transactions of the block are
\* offered to the pool again
DisconnectTip_Coins ==
    /\ coinOp = NoCoinOp
    /\ vConnected # <<>>
    /\ \E fStandard \in BOOLEAN, fFeeOk \in BOOLEAN :
          LET top == vConnected[Len(vConnected)]
              r == DisconnectBlock(top.block, hashBlock, View, top.vtxundo)
              ok == r.res = "DISCONNECT_OK"
          IN  /\ SetView(IF ok THEN r.view ELSE View)
              /\ SetPool(IF ok THEN ResurrectTxs(Pool, r.view, top.block.vtx, chainParams,
                                                 fStandard, fFeeOk)
                         ELSE Pool)
              /\ vConnected' = IF ok THEN SubSeq(vConnected, 1, Len(vConnected) - 1)
                               ELSE vConnected
              /\ coinOp' = [op |-> "DisconnectBlock", ret |-> ok, reason |-> r.res,
                            fJustCheck |-> FALSE,
                            facts |-> [block |-> top.block, before |-> top.before]]
    /\ UNCHANGED <<chainVars, chainParams>>

\* AcceptToMemoryPool(mempool, state, tx, ...) on the coin view of the tip
AcceptToMemoryPool_Tx ==
    /\ coinOp = NoCoinOp
    /\ hashBlock >= 0
    /\ Cardinality(mapTx) < MaxPoolTx
    /\ \E tx \in PoolTxs(View, Pool), fStandard \in BOOLEAN, fFeeOk \in BOOLEAN :
          LET r == AcceptToMemoryPoolWorker(Pool, View, tx, chainParams, fStandard, fFeeOk)
          IN  /\ SetPool(r.pool)
              /\ coinOp' = [op |-> "AcceptToMemoryPool", ret |-> r.ok, reason |-> r.reason,
                            fJustCheck |-> FALSE,
                            facts |-> TxFacts(Pool, View, tx, fStandard, fFeeOk),
                            fMissingInputs |-> r.fMissingInputs, state |-> r.state]
    /\ UNCHANGED <<chainVars, chainParams, cacheCoins, hashBlock, vConnected>>

\* The tips the runs of the coin machine start at: before the genesis block, at the
\* first change of the block value, at the second one (proof of stake being active),
\* and on the regression-test network two blocks before proof of stake.
StartTips ==
    {[params |-> MainParams, nHeight |-> Null],
     [params |-> MainParams, nHeight |-> 86399],
     [params |-> MainParams, nHeight |-> 302399],
     [params |-> RegTestParams, nHeight |-> 249]}

InitCoins == InitChain /\ \E s \in StartTips : CoinsAt(s.params, s.nHeight)

\* Blocks are connected to the view, checked against it and disconnected from it.
NextCoins ==
    \/ ConnectBlock_Call(BlocksOn(View, hashBlock + 1, chainParams, TxLists(View), {-1, 0, 1}))
    \/ TestBlockValidity_Coins(BlocksOn(View, hashBlock + 1, chainParams, TxLists(View),
                                        {-1, 0, 1}))
    \/ DisconnectBlock_Call
    \/ CoinOp_Return

SpecCoins == InitCoins /\ [][NextCoins]_vars

\* Transactions are offered to the pool while blocks that pay the exact reward
\* are connected and disconnected.
NextPool ==
    \/ AcceptToMemoryPool_Tx
    \/ ConnectTip_Coins(BlocksOn(View, hashBlock + 1, chainParams,
                                 ShortTxLists(View, Pool), {0}))
    \/ DisconnectTip_Coins
    \/ CoinOp_Return

SpecPool == InitCoins /\ [][NextPool]_vars

(***************************************************************************)
(* The fee rules of AcceptToMemoryPool and the trim of the pool.  Sizes,   *)
(* the fee rate and the ceiling of the pool are scaled down with the       *)
(* amounts; the scriptSig of an ordinary transaction counts its padding.   *)
(***************************************************************************)
\* ::minRelayTxFee (-minrelaytxfee): the fee asked for 1000 bytes, scaled down.
nSatoshisPerK == 1000
\* DEFAULT_BLOCK_PRIORITY_SIZE - 1000, scaled down.
nFreeSize == 4
\* The factor of "absurdly-high-fee" (10000 in the code), scaled down.
nAbsurdFactor == 5
\* -maxmempool, the ceiling TrimToSize is called with, scaled down.
nMaxMempool == 7

\* CTxMemPoolEntry::GetTxSize: the serialized size of the transaction
GetTxSize(tx) == 1 + Len(tx.vin) + Len(tx.vout) + tx.scriptSig

\* CFeeRate::GetFee(nSize)
GetFee(nSize) ==
    LET nFee == (nSatoshisPerK * nSize) \div 1000
    IN  IF nFee = 0 /\ nSatoshisPerK > 0 THEN nSatoshisPerK ELSE nFee

\* A floor that knows no free transactions.
GetMinRelayFee_NoAllowance(nBytes, fDelta, fAllowFree) ==
    IF fDelta THEN 0 ELSE GetFee(nBytes)

\* GetMinRelayFee(tx, pool, nBytes, fAllowFree); fDelta says that pool.ApplyDeltas
\* finds a positive priority or fee delta for the transaction.  No fee of the runs
\* leaves MoneyRange.
GetMinRelayFee(nBytes, fDelta, fAllowFree) ==
    IF fDelta THEN 0
    ELSE IF fAllowFree /\ nBytes < nFreeSize THEN 0
    ELSE GetFee(nBytes)

\* The arguments and the surroundings of a call of AcceptToMemoryPool: fPriorityOk
\* is false when -relaypriority is set and AllowFree refuses the priority of the
\* entry, fRateLimited is true when the free-transaction counter is over its limit.
CallArgs ==
    [fLimitFree : BOOLEAN, ignoreFees : BOOLEAN, fRejectAbsurdFee : BOOLEAN,
     fOverrideMempoolLimit : BOOLEAN, fDelta : BOOLEAN, fPriorityOk : BOOLEAN,
     fRateLimited : BOOLEAN]

\* AcceptToMemoryPoolWorker, "don't accept it if it can't get into a block" up to
\* "absurdly-high-fee": the reject reason, or "" when the fee passes
FeeChecks(nFees, nSize, a) ==
    IF ~a.ignoreFees /\ a.fLimitFree /\ nFees < GetMinRelayFee(nSize, a.fDelta, TRUE)
    THEN "insufficient fee"
    ELSE IF ~a.ignoreFees /\ nFees < GetFee(nSize) /\ ~a.fPriorityOk
    THEN "insufficient priority"
    ELSE IF ~a.ignoreFees /\ a.fLimitFree /\ nFees < GetFee(nSize) /\ a.fRateLimited
    THEN "rate limited free transaction"
    ELSE IF a.fRejectAbsurdFee /\ nFees > GetFee(nSize) * nAbsurdFactor
    THEN "absurdly-high-fee"
    ELSE ""

\* The fee of an entry of the pool: the view of the tip does not change in the runs
\* that trim, so it is the fee the entry was admitted with.
EntryFee(pool, view, tx) == GetValueIn(CCoinsViewMemPool(view, pool), tx) - GetValueOut(tx)

\* CTxMemPool::DynamicMemoryUsage
DynamicMemoryUsage(pool) == SumOf([t \in pool.mapTx |-> GetTxSize(t)], pool.mapTx)

\* The entries of the lowest fee rate.
LowestFeeRate(pool, view) ==
    {t \in pool.mapTx : \A u \in pool.mapTx :
        EntryFee(pool, view, t) * GetTxSize(u) <= EntryFee(pool, view, u) * GetTxSize(t)}

\* CTxMemPool::TrimToSize(limit): while the pool is over the limit, an entry of the
\* lowest fee rate leaves it with its descendants; the pools it may end with
RECURSIVE TrimToSize(_, _, _)
TrimToSize(pool, view, limit) ==
    IF DynamicMemoryUsage(pool) <= limit THEN {pool}
    ELSE UNION {TrimToSize(remove(pool, t), view, limit) : t \in LowestFeeRate(pool, view)}

\* CTxMemPool::Expire: the entries of the set old are older than the cutoff and
\* leave the pool with their descendants
Expire(pool, old) == Without(pool, WithDescendants(pool, old))

\* LimitMempoolSize(pool, limit, age)
LimitMempoolSize(pool, view, limit, old) == TrimToSize(Expire(pool, old), view, limit)

\* A call that reports success whatever the trim did to the transaction.
StoreAndTrim_Blind(r, view, tx, a, old) ==
    {[r EXCEPT !.pool = p] : p \in TrimToSize(r.pool, view, nMaxMempool)}

\* AcceptToMemoryPoolWorker, "store transaction in memory" and "trim mempool and
\* check if tx was trimmed", for the result r of the checks before: the results the
\* call may end with
StoreAndTrim(r, view, tx, a, old) ==
    LET full(p) == [ok |-> FALSE, reason |-> "mempool full", pool |-> p,
                    fMissingInputs |-> FALSE, state |-> RejectState("mempool full")]
        limited == IF a.fOverrideMempoolLimit THEN {r.pool}
                   ELSE LimitMempoolSize(r.pool, view, nMaxMempool, old)
    IN  UNION {IF tx \notin p.mapTx THEN {full(p)}
               ELSE {IF tx \in q.mapTx THEN [r EXCEPT !.pool = q] ELSE full(q) :
                        q \in TrimToSize(p, view, nMaxMempool)} :
               p \in limited}

\* AcceptToMemoryPool(pool, state, tx, fLimitFree, pfMissingInputs,
\* fOverrideMempoolLimit, fRejectAbsurdFee, fIgnoreFees) with the fee rules and the
\* trim spelled out: the results the call may end with
AcceptToMemoryPool(pool, view, tx, params, fStandard, a, old) ==
    LET mem == CCoinsViewMemPool(view, pool)
        nFees == IF HaveInputs(mem, tx) THEN GetValueIn(mem, tx) - GetValueOut(tx) ELSE 0
        fee == FeeChecks(nFees, GetTxSize(tx), a)
        r == AcceptToMemoryPoolWorker(pool, view, tx, params, fStandard, fee = "")
    IN  IF r.ok THEN StoreAndTrim(r, view, tx, a, old)
        ELSE IF r.reason = "insufficient fee"
        THEN {[r EXCEPT !.reason = fee, !.state = RejectState(fee)]}
        ELSE {r}

\* The transaction t with nPad bytes more in its scriptSig.
Padded(t, nPad) == [t EXCEPT !.scriptSig = nPad]

\* The fees offered for a transaction of nSize bytes: none, one below the relay
\* fee, the relay fee, and one more than the fee called absurd.
FeesFor(nSize) ==
    {0, GetFee(nSize) - 1, GetFee(nSize), GetFee(nSize) * nAbsurdFactor + 1}

\* The transactions offered to the pool with their fees looked at: spends of a coin
\* of the view or of an output of the pool, just below the size of the free
\* allowance and just at it.
FeeTxs(view, pool) ==
    LET mem == CCoinsViewMemPool(view, pool)
        pads == {nFreeSize - 4, nFreeSize - 3}
        fees == UNION {FeesFor(nPad + 3) : nPad \in pads}
    IN  {t \in {Padded(SpendTx(<<o>>, mem.cacheCoins[o].out.nValue, f), nPad) :
                   o \in DOMAIN mem.cacheCoins, f \in fees, nPad \in pads} :
            /\ t.vout[1].nValue >= 0
            /\ EntryFee(pool, view, t) \in FeesFor(GetTxSize(t))}

\* AcceptToMemoryPool(mempool, state, tx, ...) on the coin view of the tip, for a
\* caller that passes a pointer for the flag
AcceptToMemoryPool_Fees ==
    /\ coinOp = NoCoinOp
    /\ hashBlock >= 0
    /\ Cardinality(mapTx) < MaxPoolTx
    /\ \E tx \in FeeTxs(View, Pool), a \in CallArgs, old \in SUBSET mapTx :
          \E r \in AcceptToMemoryPool(Pool, View, tx, chainParams, TRUE, a, old) :
             /\ SetPool(r.pool)
             /\ coinOp' = [op |-> "AcceptToMemoryPool", ret |-> r.ok, reason |-> r.reason,
                           fJustCheck |-> FALSE,
                           facts |-> TxFacts(Pool, View, tx, TRUE, TRUE),
                           fMissingInputs |-> r.fMissingInputs, state |-> r.state,
                           args |-> a, tx |-> tx, old |-> old]
    /\ UNCHANGED <<chainVars, chainParams, cacheCoins, hashBlock, vConnected>>

\* Transactions are offered to a pool that is trimmed to its ceiling.
NextFees ==
    \/ AcceptToMemoryPool_Fees
    \/ CoinOp_Return

SpecFees == InitCoins /\ [][NextFees]_vars

(***************************************************************************)
(* ConnectBlock and the queue of script checks.  The thread that connects  *)
(* a block holds cs_main throughout; the threads of the queue run the      *)
(* checks it hands over, in any order, and it joins them when it waits.    *)
(***************************************************************************)
\* Number of transactions with inputs in a block whose scripts are checked.
MaxCheckedTxs == 2
\* Number of inputs of such a transaction.
MaxTxInputs == 2

\* What a script check finds: the script verifies, it fails a mandatory flag, or it
\* fails only a flag that is not mandatory.
ScriptVerdicts == {"ok", "bad", "nonstandard"}

\* The transactions after the coinbase, each with the verdict of CheckTxInputs and
\* the verdicts of the script checks of its inputs.
CheckedTxs ==
    [fInputsOk : BOOLEAN,
     verdicts : UNION {[1..n -> ScriptVerdicts] : n \in 1..MaxTxInputs}]

\* The blocks offered to ConnectBlock, as far as the checks of their inputs go.
\* Only the last transaction may fail CheckTxInputs, and the ones after the first
\* have one input.
CheckedBlocks ==
    UNION {{vtx \in [1..n -> CheckedTxs] :
               /\ \A k \in 1..(n - 1) : vtx[k].fInputsOk
               /\ \A k \in 2..n : Len(vtx[k].verdicts) = 1} : n \in 1..MaxCheckedTxs}

\* The script checks of transaction i of the block, one for each input.
ChecksOf(vtx, i) == {<<i, k>> : k \in 1..Len(vtx[i].verdicts)}

\* CScriptCheck::operator() for check j of the block
RunCheck(vtx, j) == vtx[j[1]].verdicts[j[2]] = "ok"

\* ConnectBlock returns false with state.DoS(nDoS, ..., reason), or with the state
\* CheckInputs left; the CCheckQueueControl is destroyed on the way out.
RejectBlock(c, reason, nDoS) ==
    [c EXCEPT !.pc = "unwind", !.ret = FALSE, !.reason = reason, !.nDoS = nDoS]

\* CCheckQueueControl::Add(vChecks): the checks join the queue
ControlAdd(q, vChecks) ==
    [q EXCEPT !.queue = @ \cup vChecks, !.nTodo = @ + Cardinality(vChecks)]

\* CCheckQueue::Loop, a thread fetching work: it takes a check off the queue and
\* notes whether all is well so far
QueueTake(q, w, j) ==
    [q EXCEPT !.queue = @ \ {j}, !.busy[w] = [job |-> j, fOk |-> q.fAllOk]]

\* CCheckQueue::Loop, a thread done with its work: the check ran if all was well
\* when it was taken, and its result is reported
QueueReport(q, w, vtx) ==
    LET b == q.busy[w]
        fOk == b.fOk /\ RunCheck(vtx, b.job)
    IN  [q EXCEPT !.busy[w] = NoJob, !.nTodo = @ - 1, !.fAllOk = @ /\ fOk,
                  !.passed = IF fOk THEN @ \cup {b.job} ELSE @]

\* A ConnectBlock that goes on whatever the queue reports.
AfterWait_IgnoreResult(c, fRet) ==
    IF c.fJustCheck THEN [c EXCEPT !.pc = "done", !.ret = TRUE]
    ELSE [c EXCEPT !.pc = "undo"]

\* ConnectBlock, "if (!control.Wait()) return state.DoS(100, ...)" and "if
\* (fJustCheck) return true", for the result fRet of control.Wait()
AfterWait(c, fRet) ==
    IF ~fRet THEN [c EXCEPT !.pc = "done", !.ret = FALSE,
                            !.reason = "block-validation-failed", !.nDoS = 100]
    ELSE IF c.fJustCheck THEN [c EXCEPT !.pc = "done", !.ret = TRUE]
    ELSE [c EXCEPT !.pc = "undo"]

\* CheckInputs(tx, state, view, fScriptChecks, flags, fCacheResults, precomTxData,
\* NULL) after CheckTxInputs: the checks run one after the other, up to the first
\* that fails
InlineChecks(vtx, i) ==
    LET v == vtx[i].verdicts
        bad == {k \in 1..Len(v) : v[k] # "ok"}
        first == IF bad = {} THEN Len(v) + 1 ELSE Min(bad)
    IN  [passed |-> {<<i, k>> : k \in 1..(first - 1)},
         ok |-> bad = {},
         reason |-> IF bad = {} THEN ""
                    ELSE IF v[first] = "nonstandard" THEN "non-mandatory-script-verify-flag"
                    ELSE "mandatory-script-verify-flag-failed",
         nDoS |-> IF bad # {} /\ v[first] = "bad" THEN 100 ELSE 0]

\* ConnectTip or TestBlockValidity calls ConnectBlock for a block of checked
\* transactions; control is constructed on the queue when scripts are checked and
\* there are script check threads
ConnectBlock_Begin ==
    /\ connecting.pc = "idle"
    /\ \E vtx \in CheckedBlocks, fJustCheck \in BOOLEAN, fScriptChecks \in BOOLEAN,
          fThreads \in BOOLEAN, fRewardOk \in BOOLEAN :
          connecting' = [pc |-> "tx", vtx |-> vtx, i |-> 1, fJustCheck |-> fJustCheck,
                         fScriptChecks |-> fScriptChecks,
                         fQueue |-> fScriptChecks /\ fThreads,
                         fRewardOk |-> fRewardOk, ret |-> FALSE, reason |-> "", nDoS |-> 0,
                         fUndo |-> FALSE, fValidScripts |-> FALSE, fBestBlock |-> FALSE,
                         fTip |-> FALSE]
    /\ UNCHANGED <<scriptcheckqueue, cs_main, threads, skipIndex, ibdVars>>

\* ConnectBlock, one turn of the loop over the transactions: CheckInputs, then
\* control.Add(vChecks)
ConnectBlock_Tx ==
    /\ connecting.pc = "tx"
    /\ LET c == connecting
           i == c.i
           next == [c EXCEPT !.i = i + 1,
                             !.pc = IF i = Len(c.vtx) THEN "reward" ELSE "tx"]
           r == InlineChecks(c.vtx, i)
       IN  IF ~c.vtx[i].fInputsOk
           THEN /\ connecting' = RejectBlock(c, "bad-txns-in-belowout", 100)
                /\ UNCHANGED scriptcheckqueue
           ELSE IF c.fQueue
           THEN /\ connecting' = next
                /\ scriptcheckqueue' = ControlAdd(scriptcheckqueue, ChecksOf(c.vtx, i))
           ELSE IF c.fScriptChecks
           THEN /\ connecting' = IF r.ok THEN next ELSE RejectBlock(c, r.reason, r.nDoS)
                /\ scriptcheckqueue' = [scriptcheckqueue EXCEPT !.passed = @ \cup r.passed]
           ELSE /\ connecting' = next
                /\ UNCHANGED scriptcheckqueue
    /\ UNCHANGED <<cs_main, threads, skipIndex, ibdVars>>

\* ConnectBlock, "check that the block does not overmint"
ConnectBlock_Reward ==
    /\ connecting.pc = "reward"
    /\ connecting' = IF connecting.fRewardOk THEN [connecting EXCEPT !.pc = "wait"]
                     ELSE RejectBlock(connecting, "bad-cb-amount", 100)
    /\ UNCHANGED <<scriptcheckqueue, cs_main, threads, skipIndex, ibdVars>>

\* A thread of the queue, or the connecting thread inside Wait(), takes a check.
CheckQueue_Take(w) ==
    /\ w = 0 => connecting.pc \in {"wait", "unwind"}
    /\ scriptcheckqueue.busy[w] = NoJob
    /\ \E j \in scriptcheckqueue.queue :
          scriptcheckqueue' = QueueTake(scriptcheckqueue, w, j)
    /\ UNCHANGED <<connecting, cs_main, threads, skipIndex, ibdVars>>

\* The thread is done with the check it took.
CheckQueue_Report(w) ==
    /\ scriptcheckqueue.busy[w] # NoJob
    /\ scriptcheckqueue' = QueueReport(scriptcheckqueue, w, connecting.vtx)
    /\ UNCHANGED <<connecting, cs_main, threads, skipIndex, ibdVars>>

\* control.Wait() returns to ConnectBlock: nothing is left to do; the queue is as
\* new for the next block
ConnectBlock_Waited ==
    /\ connecting.pc = "wait"
    /\ scriptcheckqueue.nTodo = 0
    /\ connecting' = AfterWait(connecting, scriptcheckqueue.fAllOk)
    /\ scriptcheckqueue' = [scriptcheckqueue EXCEPT !.fAllOk = TRUE]
    /\ UNCHANGED <<cs_main, threads, skipIndex, ibdVars>>

\* ~CCheckQueueControl on a return before control.Wait(): it waits all the same
ConnectBlock_Unwound ==
    /\ connecting.pc = "unwind"
    /\ scriptcheckqueue.nTodo = 0
    /\ connecting' = [connecting EXCEPT !.pc = "done"]
    /\ scriptcheckqueue' = [scriptcheckqueue EXCEPT !.fAllOk = TRUE]
    /\ UNCHANGED <<cs_main, threads, skipIndex, ibdVars>>

\* ConnectBlock, "write undo information to disk" and RaiseValidity(BLOCK_VALID_SCRIPTS)
ConnectBlock_Undo ==
    /\ connecting.pc = "undo"
    /\ connecting' = [connecting EXCEPT !.pc = "best", !.fUndo = TRUE,
                                        !.fValidScripts = TRUE]
    /\ UNCHANGED <<scriptcheckqueue, cs_main, threads, skipIndex, ibdVars>>

\* ConnectBlock, view.SetBestBlock(pindex->GetBlockHash()) and return true
ConnectBlock_SetBestBlock ==
    /\ connecting.pc = "best"
    /\ connecting' = [connecting EXCEPT !.pc = "tip", !.fBestBlock = TRUE, !.ret = TRUE]
    /\ UNCHANGED <<scriptcheckqueue, cs_main, threads, skipIndex, ibdVars>>

\* ConnectTip after ConnectBlock returned true: view.Flush() and UpdateTip(pindexNew)
ConnectTip_UpdateTip ==
    /\ connecting.pc = "tip"
    /\ connecting' = [connecting EXCEPT !.pc = "done", !.fTip = TRUE]
    /\ UNCHANGED <<scriptcheckqueue, cs_main, threads, skipIndex, ibdVars>>

\* The caller has the result; the next block may come.
ConnectBlock_Return ==
    /\ connecting.pc = "done"
    /\ connecting' = IdleConnect
    /\ scriptcheckqueue' = [scriptcheckqueue EXCEPT !.passed = {}]
    /\ UNCHANGED <<cs_main, threads, skipIndex, ibdVars>>

\* The variables outside the script check machine.
restOfScripts ==
    <<mapBlockIndex, chainActive, setBlockIndexCandidates, mapBlocksUnlinked, nBlockSequenceId,
      pcoinsTip, vinfoBlockFile, blocks, nRestarts, abcRunning, settled, lastOp, stepOps,
      cacheCoins, hashBlock, vConnected, mapTx, mapNextTx, coinOp, chainParams,
      nLastBlockFile, nFile, diskFiles, pblocktree, pcoinsdbview, setDirtyBlockIndex, flushPc>>

NextScripts ==
    /\ \/ ConnectBlock_Begin
       \/ ConnectBlock_Tx
       \/ ConnectBlock_Reward
       \/ \E w \in 0..nScriptCheckWorkers : CheckQueue_Take(w)
       \/ \E w \in 0..nScriptCheckWorkers : CheckQueue_Report(w)
       \/ ConnectBlock_Waited
       \/ ConnectBlock_Unwound
       \/ ConnectBlock_Undo
       \/ ConnectBlock_SetBestBlock
       \/ ConnectTip_UpdateTip
       \/ ConnectBlock_Return
    /\ UNCHANGED restOfScripts

SpecScripts == Init /\ [][NextScripts]_vars

(***************************************************************************)
(* Threads in ProcessNewBlock, ActivateBestChain, ReprocessBlocks and      *)
(* AcceptToMemoryPool, and cs_main.  A thread's position names the         *)
(* statement it is executing; what the statement touches of mapBlockIndex, *)
(* setBlockIndexCandidates, mapBlocksUnlinked and chainActive is given by  *)
(* Reads and Mutates below.                                                *)
(***************************************************************************)
\* The threads that call into the validation code.
Threads == 1..MaxThreads

\* Statements that change the block index, the candidates, the unlinked blocks or
\* the active chain, or connect or disconnect a block.
Mutates ==
    {"ProcessNewBlock: AcceptBlock", "ActivateBestChain: ActivateBestChainStep",
     "ReprocessBlocks: ReconsiderBlock", "ReprocessBlocks: DisconnectBlocks"}

\* Statements that read them.
Reads ==
    {"ProcessNewBlock: chainActive.Height()", "ProcessNewBlock: mapBlockIndex.find",
     "ProcessNewBlock: chainActive.GetLocator()", "ActivateBestChain: chainActive.Tip()",
     "ReprocessBlocks: mapBlockIndex.find", "AcceptToMemoryPool: worker"}

\* Thread t moves to statement pc.
Goto(t, pc) == threads' = [threads EXCEPT ![t] = [pc |-> pc]]

\* LOCK(cs_main) by thread t, then statement pc
Lock(t, pc) ==
    /\ cs_main = Null
    /\ cs_main' = t
    /\ Goto(t, pc)

\* The end of the scope of a LOCK(cs_main) of thread t, then statement pc
Unlock(t, pc) ==
    /\ cs_main = t
    /\ cs_main' = Null
    /\ Goto(t, pc)

\* A thread enters one of the four calls.
Thread_Enter(t) ==
    /\ threads[t].pc = "idle"
    /\ \E pc \in {"ProcessNewBlock: CheckBlock", "ActivateBestChain: TRY_LOCK",
                  "ReprocessBlocks: mapBlockIndex.find",
                  "AcceptToMemoryPool: LOCK(cs_main)"} :
          Goto(t, pc)
    /\ UNCHANGED cs_main

\* ProcessNewBlock, statement by statement
ProcessNewBlock_Thread(t) ==
    LET pc == threads[t].pc IN
    \/ /\ pc = "ProcessNewBlock: CheckBlock"
       /\ Goto(t, "ProcessNewBlock: chainActive.Height()")
       /\ UNCHANGED cs_main
    \/ /\ pc = "ProcessNewBlock: chainActive.Height()"
       /\ \E fSignatureOk \in BOOLEAN, fFromPeer \in BOOLEAN :
             Goto(t, IF ~fSignatureOk THEN "idle"
                     ELSE IF fFromPeer THEN "ProcessNewBlock: mapBlockIndex.find"
                     ELSE "ProcessNewBlock: LOCK(cs_main)")
       /\ UNCHANGED cs_main
    \/ /\ pc = "ProcessNewBlock: mapBlockIndex.find"
       /\ \E fFound \in BOOLEAN :
             Goto(t, IF fFound THEN "ProcessNewBlock: LOCK(cs_main)"
                     ELSE "ProcessNewBlock: chainActive.GetLocator()")
       /\ UNCHANGED cs_main
    \/ /\ pc = "ProcessNewBlock: chainActive.GetLocator()"
       /\ Goto(t, "idle")
       /\ UNCHANGED cs_main
    \/ /\ pc = "ProcessNewBlock: LOCK(cs_main)"
       /\ Lock(t, "ProcessNewBlock: AcceptBlock")
    \/ /\ pc = "ProcessNewBlock: AcceptBlock"
       /\ \E ret \in BOOLEAN :
             Unlock(t, IF ret THEN "ActivateBestChain: TRY_LOCK" ELSE "idle")

\* ActivateBestChain, statement by statement: TRY_LOCK in the inner loop, the step
\* under the lock, and the condition of the outer loop after the lock is released
ActivateBestChain_Thread(t) ==
    LET pc == threads[t].pc IN
    \/ /\ pc = "ActivateBestChain: TRY_LOCK"
       /\ Lock(t, "ActivateBestChain: ActivateBestChainStep")
    \/ /\ pc = "ActivateBestChain: ActivateBestChainStep"
       /\ \E fReturn \in BOOLEAN :
             Unlock(t, IF fReturn THEN "idle" ELSE "ActivateBestChain: chainActive.Tip()")
    \/ /\ pc = "ActivateBestChain: chainActive.Tip()"
       /\ \E fAgain \in BOOLEAN :
             Goto(t, IF fAgain THEN "ActivateBestChain: TRY_LOCK"
                     ELSE "ActivateBestChain: CheckBlockIndex")
       /\ UNCHANGED cs_main
    \/ /\ pc = "ActivateBestChain: CheckBlockIndex"
       /\ Lock(t, "ActivateBestChain: FlushStateToDisk")
    \/ /\ pc = "ActivateBestChain: FlushStateToDisk"
       /\ Unlock(t, "idle")

\* ReprocessBlocks, statement by statement
ReprocessBlocks_Thread(t) ==
    LET pc == threads[t].pc IN
    \/ /\ pc = "ReprocessBlocks: LOCK(cs_main)"
       /\ Lock(t, "ReprocessBlocks: ReconsiderBlock")
    \/ /\ pc = "ReprocessBlocks: mapBlockIndex.find"
       /\ \E fFound \in BOOLEAN :
             Goto(t, IF fFound THEN "ReprocessBlocks: LOCK(cs_main)"
                     ELSE "ReprocessBlocks: LOCK(cs_main) 2")
       /\ UNCHANGED cs_main
    \/ /\ pc = "ReprocessBlocks: ReconsiderBlock"
       /\ Unlock(t, "ReprocessBlocks: LOCK(cs_main) 2")
    \/ /\ pc = "ReprocessBlocks: LOCK(cs_main) 2"
       /\ Lock(t, "ReprocessBlocks: DisconnectBlocks")
    \/ /\ pc = "ReprocessBlocks: DisconnectBlocks"
       /\ Unlock(t, "ActivateBestChain: TRY_LOCK")

\* AcceptToMemoryPool: its caller holds cs_main (AssertLockHeld in the worker)
AcceptToMemoryPool_Thread(t) ==
    LET pc == threads[t].pc IN
    \/ /\ pc = "AcceptToMemoryPool: LOCK(cs_main)"
       /\ Lock(t, "AcceptToMemoryPool: worker")
    \/ /\ pc = "AcceptToMemoryPool: worker"
       /\ Unlock(t, "idle")

\* The variables outside the threads and the lock.
restOfThreads == <<restOfScripts, scriptcheckqueue, connecting, skipIndex, ibdVars>>

NextThreads ==
    /\ \E t \in Threads :
          \/ Thread_Enter(t)
          \/ ProcessNewBlock_Thread(t)
          \/ ActivateBestChain_Thread(t)
          \/ ReprocessBlocks_Thread(t)
          \/ AcceptToMemoryPool_Thread(t)
    /\ UNCHANGED restOfThreads

SpecThreads == Init /\ [][NextThreads]_vars

(***************************************************************************)
(* DisconnectBlock on a view that is out of step with the blocks, and its  *)
(* callers DisconnectTip and CVerifyDB::VerifyDB.  The coin database can   *)
(* be out of step after a crash or a fault of the disk; VerifyDB is run at *)
(* startup to find out.                                                    *)
(***************************************************************************)
\* The outputs of the block: transaction i, output n (counted from 1).
BlockOutputs(block) ==
    {in \in (1..Len(block.vtx)) \X (1..2) : in[2] <= Len(block.vtx[in[1]].vout)}

\* The outpoint of output in of the block.
OutPointOf(block, in) == COutPoint(GetHash(block.vtx[in[1]]), in[2] - 1)

\* The height of a block that was connected, as its coinbase records it.
HeightOf(block) == block.vtx[1].scriptSig

\* What can be wrong with the coin database or the undo data of the block at the
\* tip: an output of the block is gone, an output has another value, a coin the
\* block spent is there again, or the undo records are gone.
Damaged(top, view) ==
    {[cacheCoins |-> SpendCoin(view, OutPointOf(top.block, in)).view.cacheCoins,
      vtxundo |-> top.vtxundo] :
        in \in {x \in BlockOutputs(top.block) : HaveCoin(view, OutPointOf(top.block, x))}}
    \cup
    {[cacheCoins |-> [view.cacheCoins EXCEPT ![OutPointOf(top.block, in)].out.nValue = @ + 1],
      vtxundo |-> top.vtxundo] :
        in \in {x \in BlockOutputs(top.block) : HaveCoin(view, OutPointOf(top.block, x))}}
    \cup
    {[cacheCoins |-> AddCoin(view, top.block.vtx[ij[1]].vin[ij[2]],
                             top.vtxundo[ij[1] - 1][ij[2]]).cacheCoins,
      vtxundo |-> top.vtxundo] :
        ij \in {x \in BlockInputs(top.block) :
                   /\ Len(top.vtxundo) + 1 = Len(top.block.vtx)
                   /\ ~HaveCoin(view, top.block.vtx[x[1]].vin[x[2]])}}
    \cup
    {[cacheCoins |-> view.cacheCoins, vtxundo |-> <<>>] :
        x \in {y \in {1} : Len(top.block.vtx) > 1}}

\* DisconnectBlock would find the view out of step with the block: an output of the
\* block that the block does not spend itself is missing from the view or differs
\* in it, or an input of the block is a coin of the view.
OutOfStep(block, view) ==
    \/ \E in \in BlockOutputs(block) :
          /\ \A ij \in BlockInputs(block) :
                block.vtx[ij[1]].vin[ij[2]] # OutPointOf(block, in)
          /\ AccessCoin(view, OutPointOf(block, in)).out # block.vtx[in[1]].vout[in[2]]
    \/ \E ij \in BlockInputs(block) : HaveCoin(view, block.vtx[ij[1]].vin[ij[2]])

\* The block is rolled back in the view: its best block is the block below, none of
\* the outputs of the block is a coin, and every coin the block spent from below is.
RolledBack(block, view) ==
    /\ view.hashBlock = HeightOf(block) - 1
    /\ \A in \in BlockOutputs(block) : ~HaveCoin(view, OutPointOf(block, in))
    /\ \A ij \in BlockInputs(block) :
          LET o == block.vtx[ij[1]].vin[ij[2]]
          IN  (\A in \in BlockOutputs(block) : o # OutPointOf(block, in)) => HaveCoin(view, o)

\* The coin database or the undo data of the tip block is found damaged.
Damage ==
    /\ coinOp = NoCoinOp
    /\ vConnected # <<>>
    /\ LET n == Len(vConnected)
           top == vConnected[n]
       IN  /\ ~OutOfStep(top.block, View)
           /\ Len(top.vtxundo) + 1 = Len(top.block.vtx)
           /\ \E d \in Damaged(top, View) :
                 /\ cacheCoins' = d.cacheCoins
                 /\ vConnected' = [vConnected EXCEPT ![n].vtxundo = d.vtxundo]
    /\ UNCHANGED <<chainVars, chainParams, hashBlock, mapTx, mapNextTx, coinOp>>

\* A VerifyDB that gives up at the first block that does not disconnect cleanly.
VerifyDB_StopAtUnclean(conn, k, coins, acc) ==
    IF k = 0 THEN acc
    ELSE LET r == DisconnectBlock(conn[k].block, coins.hashBlock, coins, conn[k].vtxundo)
         IN  [acc EXCEPT !.results = Append(@, [block |-> conn[k].block, before |-> coins,
                                                res |-> r.res, after |-> r.view]),
                         !.failed = r.res # "DISCONNECT_OK"]

\* CVerifyDB::VerifyDB, check level 3, from block k of the connected blocks down:
\* DisconnectBlock on coins, a cache that is never flushed; it gives up at
\* DISCONNECT_FAILED and goes on, remembering the block, at DISCONNECT_UNCLEAN
RECURSIVE VerifyDB(_, _, _, _)
VerifyDB(conn, k, coins, acc) ==
    IF k = 0 THEN acc
    ELSE LET r == DisconnectBlock(conn[k].block, coins.hashBlock, coins, conn[k].vtxundo)
             acc1 == [acc EXCEPT !.results = Append(@, [block |-> conn[k].block,
                                                         before |-> coins,
                                                         res |-> r.res, after |-> r.view])]
         IN  IF r.res = "DISCONNECT_FAILED" THEN [acc1 EXCEPT !.failed = TRUE]
             ELSE VerifyDB(conn, k - 1, r.view,
                           IF r.res = "DISCONNECT_UNCLEAN"
                           THEN [acc1 EXCEPT !.pindexFailure = HeightOf(conn[k].block),
                                             !.nGoodTransactions = 0]
                           ELSE [acc1 EXCEPT !.nGoodTransactions =
                                                 @ + Len(conn[k].block.vtx)])

\* VerifyDB(coinsview, nCheckLevel, nCheckDepth) is called on the coin database
VerifyDB_Call ==
    /\ coinOp = NoCoinOp
    /\ vConnected # <<>>
    /\ \E nCheckLevel \in {2, 3} :
          LET acc == IF nCheckLevel >= 3
                     THEN VerifyDB(vConnected, Len(vConnected), View,
                                   [results |-> <<>>, failed |-> FALSE,
                                    pindexFailure |-> Null, nGoodTransactions |-> 0])
                     ELSE [results |-> <<>>, failed |-> FALSE, pindexFailure |-> Null,
                           nGoodTransactions |-> 0]
          IN  coinOp' = [op |-> "VerifyDB", ret |-> ~acc.failed /\ acc.pindexFailure = Null,
                         reason |-> "", fJustCheck |-> FALSE,
                         facts |-> [nCheckLevel |-> nCheckLevel, nBlocks |-> Len(vConnected),
                                    results |-> acc.results,
                                    pindexFailure |-> acc.pindexFailure]]
    /\ UNCHANGED <<chainVars, chainParams, cacheCoins, hashBlock, vConnected, mapTx, mapNextTx>>

\* While the database is in step, blocks that pay the exact reward are connected;
\* once it is damaged, the tip is disconnected or the database verified.
NextUnclean ==
    \/ /\ vConnected # <<>> => /\ ~OutOfStep(vConnected[Len(vConnected)].block, View)
                               /\ Len(vConnected[Len(vConnected)].vtxundo) + 1
                                      = Len(vConnected[Len(vConnected)].block.vtx)
       /\ ConnectBlock_Call(BlocksOn(View, hashBlock + 1, chainParams,
                                     {<<>>} \cup {<<t>> : t \in Spends(View, {1})}
                                         \cup {<<t, ChildTx(t, 0)>> : t \in Spends(View, {1})},
                                     {0}))
    \/ Damage
    \/ DisconnectTip_Coins
    \/ VerifyDB_Call
    \/ CoinOp_Return

SpecUnclean == InitCoins /\ [][NextUnclean]_vars

(***************************************************************************)
(* The checks of a transaction that need no context: CheckTransaction, the *)
(* shielded check without proofs and CheckSpecialTxNoContext, and their    *)
(* callers CheckBlock and AcceptToMemoryPoolWorker.  A transaction is here *)
(* a record of what these checks look at.                                  *)
(***************************************************************************)
\* Number of shielded spends of a transaction.
MaxShieldedSpends == 2

\* CTransaction::TxVersion
TxVersion == {"LEGACY", "SAPLING"}

\* CTransaction::TxType: NORMAL, PROREG, and a type no check knows
TxType == {"NORMAL", "PROREG", "unknown"}

\* The largest extra payload of a special transaction, in bytes (scaled down).
MAX_SPECIALTX_EXTRAPAYLOAD == 3

\* The transactions offered to the checks: vin is "none", "null" (one input with a
\* null prevout) or "prevout"; vout is "none", "value" or "empty+value" (a first
\* output that is empty and a second one); sapData holds the nullifiers of the
\* shielded spends and the number of shielded outputs; extraPayload is Null or the
\* size of the payload.
RawTxs ==
    [nVersion : TxVersion,
     nType : TxType,
     vin : {"none", "null", "prevout"},
     vout : {"none", "value", "empty+value"},
     vShieldedSpend : UNION {[1..n -> 1..2] : n \in 0..MaxShieldedSpends},
     nShieldedOutput : 0..1,
     extraPayload : {Null} \cup {1, MAX_SPECIALTX_EXTRAPAYLOAD, MAX_SPECIALTX_EXTRAPAYLOAD + 1},
     fPayloadOk : BOOLEAN]

\* CTransaction::IsCoinBase and IsCoinStake on such a record
RawIsCoinBase(tx) == tx.vin = "null"

RawIsCoinStake(tx) == tx.vin = "prevout" /\ tx.vout = "empty+value"

\* SaplingValidation::CheckTransactionWithoutProofVerification: the reject reason,
\* "" when the transaction passes
CheckTransactionWithoutProofVerification(tx) ==
    IF /\ RawIsCoinBase(tx) \/ RawIsCoinStake(tx)
       /\ tx.vShieldedSpend # <<>> \/ tx.nShieldedOutput > 0
    THEN "bad-txns-invalid-sapling"
    ELSE IF \E i, j \in DOMAIN tx.vShieldedSpend :
                i # j /\ tx.vShieldedSpend[i] = tx.vShieldedSpend[j]
    THEN "bad-spend-description-nullifiers-duplicate"
    ELSE ""

\* CheckTransaction(tx, state, fColdStakingActive): the reject reason, "" when the
\* transaction passes
CheckTransaction(tx) ==
    IF tx.vin = "none" /\ tx.vShieldedSpend = <<>> THEN "bad-txns-vin-empty"
    ELSE IF tx.vout = "none" /\ tx.nShieldedOutput = 0 THEN "bad-txns-vout-empty"
    ELSE CheckTransactionWithoutProofVerification(tx)

\* CheckSpecialTxNoContext(tx, state): the reject reason, "" when it passes
CheckSpecialTxNoContext(tx) ==
    IF tx.nVersion = "LEGACY"
    THEN IF tx.nType # "NORMAL" THEN "not supported with version 0" ELSE ""
    ELSE IF tx.nType = "NORMAL"
    THEN IF tx.extraPayload # Null THEN "doesn't support extra payload" ELSE ""
    ELSE IF tx.extraPayload = Null THEN "without extra payload"
    ELSE IF tx.extraPayload > MAX_SPECIALTX_EXTRAPAYLOAD THEN "Special tx payload oversize"
    ELSE IF tx.nType # "PROREG" THEN "with invalid type"
    ELSE ""

\* CheckSpecialTx(tx, pindexPrev, state): the check without context, then the check
\* of the payload against the chain
CheckSpecialTx(tx) ==
    IF CheckSpecialTxNoContext(tx) # "" THEN CheckSpecialTxNoContext(tx)
    ELSE IF tx.nType = "PROREG" /\ ~tx.fPayloadOk THEN "bad-protx-payload"
    ELSE ""

\* A CheckBlock that does not run CheckTransaction.
CheckBlockTxs_NoCheckTransaction(vtx) ==
    IF \E i \in DOMAIN vtx : CheckSpecialTx(vtx[i]) # ""
    THEN CheckSpecialTx(vtx[Min({i \in DOMAIN vtx : CheckSpecialTx(vtx[i]) # ""})])
    ELSE ""

\* CheckBlock, "check transactions": for each transaction CheckSpecialTx, then
\* CheckTransaction; the block is rejected with the reason of the first check that
\* fails
CheckBlockTxs(vtx) ==
    LET reason(tx) == IF CheckSpecialTx(tx) # "" THEN CheckSpecialTx(tx)
                      ELSE CheckTransaction(tx)
        bad == {i \in DOMAIN vtx : reason(vtx[i]) # ""}
    IN  IF bad = {} THEN "" ELSE reason(vtx[Min(bad)])

\* An AcceptToMemoryPoolWorker that does not run CheckSpecialTx.
CheckPoolTx_NoCheckSpecialTx(tx) == CheckTransaction(tx)

\* AcceptToMemoryPoolWorker, its first checks: CheckSpecialTx, then CheckTransaction
CheckPoolTx(tx) ==
    IF CheckSpecialTx(tx) # "" THEN CheckSpecialTx(tx) ELSE CheckTransaction(tx)

\* A transaction that passes every check: the first transaction of the blocks below.
GoodRawTx ==
    [nVersion |-> "SAPLING", nType |-> "NORMAL", vin |-> "null", vout |-> "value",
     vShieldedSpend |-> <<>>, nShieldedOutput |-> 0, extraPayload |-> Null,
     fPayloadOk |-> TRUE]

\* One of the checks is called on a transaction; the caller reads the result.
TxCheck_Call(op) ==
    /\ coinOp = NoCoinOp
    /\ \E tx \in RawTxs :
          LET reason == CASE op = "CheckTransaction" -> CheckTransaction(tx)
                          [] op = "CheckTransactionWithoutProofVerification" ->
                                CheckTransactionWithoutProofVerification(tx)
                          [] op = "CheckSpecialTxNoContext" -> CheckSpecialTxNoContext(tx)
                          [] op = "CheckBlock" -> CheckBlockTxs(<<GoodRawTx, tx>>)
                          [] op = "AcceptToMemoryPoolWorker" -> CheckPoolTx(tx)
          IN  coinOp' = [op |-> op, ret |-> reason = "", reason |-> reason,
                         fJustCheck |-> FALSE, facts |-> [tx |-> tx]]
    /\ UNCHANGED <<chainVars, chainParams, cacheCoins, hashBlock, vConnected, mapTx, mapNextTx>>

NextTxChecks ==
    \/ TxCheck_Call("CheckTransaction")
    \/ TxCheck_Call("CheckTransactionWithoutProofVerification")
    \/ TxCheck_Call("CheckSpecialTxNoContext")
    \/ TxCheck_Call("CheckBlock")
    \/ TxCheck_Call("AcceptToMemoryPoolWorker")
    \/ CoinOp_Return

SpecTxChecks == InitCoins /\ [][NextTxChecks]_vars

(***************************************************************************)
(* The skip pointers of the block index: GetSkipHeight, BuildSkip and      *)
(* CBlockIndex::GetAncestor.  skipIndex is the sequence of the entries in  *)
(* the order they were added; an entry is named by its place in it.        *)
(***************************************************************************)
\* Number of entries of the block index.
MaxSkipEntries == 12
\* How far below the newest entry a new block may attach.
MaxForkBack == 1

\* The lowest '1' bit of n > 0.
RECURSIVE LowestOne(_)
LowestOne(n) == IF n % 2 = 1 THEN 1 ELSE 2 * LowestOne(n \div 2)

\* InvertLowestOne(n): n & (n - 1)
InvertLowestOne(n) == IF n = 0 THEN 0 ELSE n - LowestOne(n)

\* GetSkipHeight(height)
GetSkipHeight(height) ==
    IF height < 2 THEN 0
    ELSE IF height % 2 = 1 THEN InvertLowestOne(InvertLowestOne(height - 1)) + 1
    ELSE InvertLowestOne(height)

\* CBlockIndex::GetAncestor, the loop: from entry pindexWalk, believed to be at
\* heightWalk, down to height.  Following a null pointer is the end of the program.
RECURSIVE WalkToHeight(_, _, _, _)
WalkToHeight(index, pindexWalk, heightWalk, height) ==
    IF heightWalk <= height THEN pindexWalk
    ELSE IF pindexWalk = Null THEN "null pointer"
    ELSE LET heightSkip == GetSkipHeight(heightWalk)
             heightSkipPrev == GetSkipHeight(heightWalk - 1)
         IN  IF \/ heightSkip = height
                \/ /\ heightSkip > height
                   /\ ~(heightSkipPrev < heightSkip - 2 /\ heightSkipPrev >= height)
             THEN WalkToHeight(index, index[pindexWalk].pskip, heightSkip, height)
             ELSE WalkToHeight(index, index[pindexWalk].pprev, heightWalk - 1, height)

\* CBlockIndex::GetAncestor(height) of entry n
GetAncestorBySkip(index, n, height) ==
    IF height > index[n].nHeight \/ height < 0 THEN Null
    ELSE WalkToHeight(index, n, index[n].nHeight, height)

\* A BuildSkip that takes the skip height of the block below.
BuildSkip_OfPrev(index, pprev, nHeight) ==
    IF pprev = Null THEN Null
    ELSE GetAncestorBySkip(index, pprev, GetSkipHeight(nHeight - 1))

\* CBlockIndex::BuildSkip for a new entry at nHeight on pprev: its pskip
BuildSkip(index, pprev, nHeight) ==
    IF pprev = Null THEN Null
    ELSE GetAncestorBySkip(index, pprev, GetSkipHeight(nHeight))

\* AddToBlockIndex, for a block on an entry of the index: pprev, nHeight, BuildSkip
AddToBlockIndex_Skip ==
    /\ Len(skipIndex) < MaxSkipEntries
    /\ \E pprev \in DOMAIN skipIndex :
          /\ pprev >= Len(skipIndex) - MaxForkBack
          /\ LET nHeight == skipIndex[pprev].nHeight + 1
             IN  skipIndex' = Append(skipIndex,
                                     [nHeight |-> nHeight, pprev |-> pprev,
                                      pskip |-> BuildSkip(skipIndex, pprev, nHeight)])
    /\ UNCHANGED <<restOfScripts, scriptcheckqueue, connecting, cs_main, threads, ibdVars>>

NextSkip == AddToBlockIndex_Skip

SpecSkip == Init /\ [][NextSkip]_vars

(***************************************************************************)
(* ActivateBestChainStep with its strides.  The blocks between the fork    *)
(* point and pindexMostWork are collected and connected a stride at a      *)
(* time; lastOp.calls lists the calls of ConnectTip with the tip each call *)
(* found.                                                                  *)
(***************************************************************************)
\* Number of blocks other than the genesis block in the runs with strides.
MaxStrideBlocks == 4
\* Number of blocks of one stride (32 in ActivateBestChainStep).
nStride == 2
\* Number of blocks other than the genesis block in the runs that are followed to
\* their end.
MaxActivateBlocks == 3

\* ActivateBestChainStep: the loop that fills vpindexToConnect, from pindexIter
\* down to the block above nHeight
RECURSIVE BlocksDownTo(_, _, _)
BlocksDownTo(idx, pindexIter, nHeight) ==
    IF pindexIter = Null \/ idx[pindexIter].nHeight = nHeight THEN <<>>
    ELSE <<pindexIter>> \o BlocksDownTo(idx, idx[pindexIter].pprev, nHeight)

\* A loop over vpindexToConnect from its first element on.
ConnectOrder_Forward(vpindexToConnect) == vpindexToConnect

\* BOOST_REVERSE_FOREACH (pindexConnect, vpindexToConnect): the order of the loop
ConnectOrder(vpindexToConnect) ==
    [i \in 1..Len(vpindexToConnect) |-> vpindexToConnect[Len(vpindexToConnect) + 1 - i]]

\* ActivateBestChainStep: the loop that connects the blocks of one stride.
\* fContinue is what the loop leaves in the variable of that name.
RECURSIVE ConnectStride(_, _, _, _, _)
ConnectStride(s, order, pindexOldTip, blk, calls) ==
    IF order = <<>> THEN [s |-> s, fContinue |-> TRUE, fInvalidFound |-> FALSE, calls |-> calls]
    ELSE LET pindexConnect == Head(order)
             called == Append(calls, [pindexNew |-> pindexConnect, tip |-> Tip(s.chain)])
             r == ConnectTip(s, pindexConnect, blk[pindexConnect].fValid)
         IN  IF ~r.ok
             THEN [s |-> r.s, fContinue |-> FALSE, fInvalidFound |-> TRUE, calls |-> called]
             ELSE LET s1 == PruneBlockIndexCandidates(r.s)
                  IN  IF StopConnecting(s1, pindexOldTip)
                      THEN [s |-> s1, fContinue |-> FALSE, fInvalidFound |-> FALSE,
                            calls |-> called]
                      ELSE ConnectStride(s1, Tail(order), pindexOldTip, blk, called)

\* ActivateBestChainStep: while (fContinue && nHeight != pindexMostWork->nHeight)
RECURSIVE ConnectStrides(_, _, _, _, _, _)
ConnectStrides(s, nHeight, pindexMostWork, pindexOldTip, blk, calls) ==
    IF nHeight = s.idx[pindexMostWork].nHeight
    THEN [s |-> s, fContinue |-> TRUE, fInvalidFound |-> FALSE, calls |-> calls]
    ELSE LET nTargetHeight == IF nHeight + nStride < s.idx[pindexMostWork].nHeight
                              THEN nHeight + nStride
                              ELSE s.idx[pindexMostWork].nHeight
             pindexIter == GetAncestor(s.idx, pindexMostWork, nTargetHeight)
             vpindexToConnect == BlocksDownTo(s.idx, pindexIter, nHeight)
             r == ConnectStride(s, ConnectOrder(vpindexToConnect), pindexOldTip, blk, calls)
         IN  IF r.fContinue
             THEN ConnectStrides(r.s, nTargetHeight, pindexMostWork, pindexOldTip, blk, r.calls)
             ELSE r

\* ActivateBestChainStep(state, pindexMostWork, ...), stride by stride
ActivateBestChainStep_Strides(s, pindexMostWork, blk) ==
    LET pindexOldTip == Tip(s.chain)
        pindexFork == FindFork(s.idx, s.chain, pindexMostWork)
        s1 == DisconnectToFork(s, pindexFork)
        nHeight == IF pindexFork = Null THEN -1 ELSE s.idx[pindexFork].nHeight
    IN  ConnectStrides(s1, nHeight, pindexMostWork, pindexOldTip, blk, <<>>)

\* ProcessNewBlock of a block that no node has seen yet and that passes the checks
\* of AcceptBlock; ConnectBlock may still reject it.  At most nMax blocks are created.
ProcessNewBlock_Stride(nMax) ==
    /\ Cardinality(DOMAIN blocks) <= nMax
    /\ \E par \in DOMAIN mapBlockIndex, work \in WorkValues, fValid \in BOOLEAN :
          LET b == Cardinality(DOMAIN blocks)
              blk == [x \in DOMAIN blocks \cup {b} |->
                         IF x = b THEN [pprev |-> par, work |-> work, fValid |-> fValid,
                                        fChecks |-> TRUE]
                         ELSE blocks[x]]
          IN  ProcessNewBlockLocked(b, blk, "none")

\* ActivateBestChain, one pass under cs_main that runs ActivateBestChainStep: what
\* the pass leaves in the chain state and in the bookkeeping of calls
StridesPass ==
    LET f == FindMostWorkChain(ChainState)
        r == ActivateBestChainStep_Strides(f.s, f.ret, blocks)
        done == Tip(r.s.chain) = f.ret
    IN  [s |-> r.s, abcRunning |-> ~done, settled |-> done,
         lastOp |-> [op |-> "ActivateBestChainStep", ret |-> TRUE,
                     reason |-> IF done THEN "tip reached" ELSE "again",
                     pindexOldTip |-> Tip(f.s.chain),
                     pindexFork |-> FindFork(f.s.idx, f.s.chain, f.ret),
                     pindexMostWork |-> f.ret,
                     fInvalidFound |-> r.fInvalidFound,
                     calls |-> r.calls],
         stepOps |-> r.s.ops]

\* ActivateBestChain, one pass under cs_main that runs ActivateBestChainStep
ActivateBestChain_Strides ==
    /\ abcRunning
    /\ LET f == FindMostWorkChain(ChainState)
       IN  /\ f.ret # Null
           /\ f.ret # Tip(f.s.chain)
    /\ SetChainState(StridesPass.s)
    /\ abcRunning' = StridesPass.abcRunning
    /\ settled' = StridesPass.settled
    /\ lastOp' = StridesPass.lastOp
    /\ stepOps' = StridesPass.stepOps
    /\ UNCHANGED <<blocks, nRestarts, coinVars>>

NextStrides ==
    \/ ProcessNewBlock_Stride(MaxStrideBlocks)
    \/ ActivateBestChain_Call
    \/ ActivateBestChain_Done
    \/ ActivateBestChain_Strides

SpecStrides == Init /\ [][NextStrides]_vars

\* A pass of ActivateBestChain can be taken and changes the state: the thread is in
\* the loop, and it returns, or its ActivateBestChainStep leaves something changed.
PassEnabled ==
    /\ abcRunning
    /\ LET f == FindMostWorkChain(ChainState)
       IN  \/ f.ret = Null
           \/ f.ret = Tip(f.s.chain)
           \/ ~SameChainState(StridesPass.s)
           \/ StridesPass.abcRunning # abcRunning
           \/ StridesPass.settled # settled
           \/ StridesPass.lastOp # lastOp
           \/ StridesPass.stepOps # stepOps

\* The thread that is inside ActivateBestChain gets cs_main again and again: its
\* TRY_LOCK loop sleeps and retries.  This is weak fairness of the passes,
\* WF_vars(ActivateBestChain_Done \/ ActivateBestChain_Strides), with the enabling
\* condition written as the state predicate PassEnabled.
PassesAreFair ==
    \/ []<>(~PassEnabled)
    \/ []<><<ActivateBestChain_Done \/ ActivateBestChain_Strides>>_vars

NextActivate ==
    \/ ProcessNewBlock_Stride(MaxActivateBlocks)
    \/ ActivateBestChain_Call
    \/ ActivateBestChain_Done
    \/ ActivateBestChain_Strides

SpecActivate ==
    /\ Init
    /\ [][NextActivate]_vars
    /\ PassesAreFair

(***************************************************************************)
(* Corrupted copies.  The hash of a block is the hash of its header, so a  *)
(* copy of a block with other transactions, or a copy damaged on disk, has *)
(* the hash of the block and fails the merkle root check of CheckBlock.    *)
(* CheckBlock then sets the "corruption possible" flag of the validation   *)
(* state.  The verdict of CheckBlock on the copy at hand is "ok",          *)
(* "invalid" (a check that says the block breaks a rule) or "corrupt".     *)
(***************************************************************************)
\* Number of blocks other than the genesis block in the runs with corrupted copies.
MaxCorruptBlocks == 2

CheckVerdicts == {"ok", "invalid", "corrupt"}

\* A CheckBlock that never says "corruption possible".
CheckBlock_NoFlag(verdict) ==
    [mode |-> IF verdict = "ok" THEN "valid" ELSE "invalid", corruptionPossible |-> FALSE]

\* CheckBlock(block, state): the validation state it leaves
CheckBlock(verdict) ==
    [mode |-> IF verdict = "ok" THEN "valid" ELSE "invalid",
     corruptionPossible |-> verdict = "corrupt"]

\* InvalidBlockFound(pindex, state)
InvalidBlockFoundIn(s, pindex, state) ==
    IF ~state.corruptionPossible THEN InvalidBlockFound(s, pindex) ELSE s

\* ConnectTip(state, pindexNew, NULL, ...): the block is read from disk and
\* ConnectBlock checks it again
ConnectTipFromDisk(s, pindexNew, fValid, verdict) ==
    LET state == CheckBlock(verdict)
    IN  IF state.mode = "invalid"
        THEN IF state.corruptionPossible
             THEN AbortNode(s, "corrupt")
             ELSE Outcome(InvalidBlockFoundIn(s, pindexNew, state), FALSE, "invalid", FALSE,
                          "consensus")
        ELSE ConnectTipOutcome(s, pindexNew, fValid, "none")

\* ActivateBestChainStep(state, pindexMostWork, NULL, ...), CheckBlock giving the
\* verdict on the first block that is read from disk to be connected
ActivateBestChainStepFromDisk(s, pindexMostWork, blk, verdict) ==
    LET pindexFork == FindFork(s.idx, s.chain, pindexMostWork)
        d == DisconnectToForkOutcome(s, pindexFork, NoFault)
        nHeight == IF pindexFork = Null THEN -1 ELSE s.idx[pindexFork].nHeight
        pindexConnect == PathTo(s.idx, pindexMostWork)[nHeight + 2]
        r == ConnectTipFromDisk(d.s, pindexConnect, blk[pindexConnect].fValid, verdict)
    IN  IF verdict = "ok" THEN ActivateBestChainStepOutcome(s, pindexMostWork, blk, NoFault)
        ELSE IF r.mode = "invalid" THEN Outcome(r.s, TRUE, "valid", FALSE, "consensus")
        ELSE r

\* ProcessNewBlock(state, pfrom, pblock, ...) for a copy of block b on which
\* CheckBlock gives the verdict: up to the end of the section under cs_main
ProcessNewBlock_Copy ==
    \E b \in DOMAIN blocks \cup {Cardinality(DOMAIN blocks)}, verdict \in CheckVerdicts :
      \E block \in IF b \in DOMAIN blocks THEN {blocks[b]}
                   ELSE {[pprev |-> par, work |-> work, fValid |-> fValid, fChecks |-> fChecks] :
                            par \in DOMAIN mapBlockIndex, work \in WorkValues,
                            fValid \in BOOLEAN, fChecks \in BOOLEAN} :
        LET blk == [x \in DOMAIN blocks \cup {b} |->
                       IF x \in DOMAIN blocks THEN blocks[x] ELSE block]
            checked == CheckBlock(verdict).mode = "valid"
            a == AcceptBlock(ChainState, b, blk, "none")
        IN  /\ b <= MaxCorruptBlocks
            /\ block.fValid => block.fChecks
            /\ blocks' = blk
            /\ stepOps' = <<>>
            /\ IF checked
               THEN /\ SetChainState(a.s)
                    /\ abcRunning' = (abcRunning \/ a.ret)
                    /\ settled' = (settled /\ SameChainState(a.s))
                    /\ lastOp' = [op |-> "ProcessNewBlock", ret |-> a.ret, reason |-> a.reason,
                                  pindex |-> b, verdict |-> verdict]
               ELSE /\ SetChainState(ChainState)
                    /\ lastOp' = [op |-> "ProcessNewBlock", ret |-> FALSE,
                                  reason |-> "CheckBlock failed", pindex |-> b,
                                  verdict |-> verdict]
                    /\ UNCHANGED <<abcRunning, settled>>
            /\ UNCHANGED <<nRestarts, coinVars>>

\* ActivateBestChain, one pass under cs_main whose first block to connect is read
\* from disk
ActivateBestChain_FromDisk ==
    /\ abcRunning
    /\ LET f == FindMostWorkChain(ChainState)
       IN  /\ f.ret # Null
           /\ f.ret # Tip(f.s.chain)
           /\ \E verdict \in CheckVerdicts :
                 LET r == ActivateBestChainStepFromDisk(f.s, f.ret, blocks, verdict)
                     done == r.ok /\ Tip(r.s.chain) = f.ret
                     pindexFork == FindFork(f.s.idx, f.s.chain, f.ret)
                     nHeight == IF pindexFork = Null THEN -1 ELSE f.s.idx[pindexFork].nHeight
                 IN  /\ SetChainState(r.s)
                     /\ abcRunning' = (r.ok /\ ~done)
                     /\ settled' = done
                     /\ lastOp' = [op |-> "ActivateBestChainStep", ret |-> r.ok,
                                   reason |-> IF done THEN "tip reached"
                                              ELSE IF r.ok THEN "again" ELSE "local fault",
                                   mode |-> r.mode, fShutdown |-> r.fShutdown,
                                   failure |-> r.failure, pindexOldTip |-> AttemptTip,
                                   pindexMostWork |-> f.ret,
                                   pindex |-> PathTo(f.s.idx, f.ret)[nHeight + 2],
                                   verdict |-> verdict]
                     /\ stepOps' = r.s.ops
    /\ UNCHANGED <<blocks, nRestarts, coinVars>>

NextCorrupt ==
    \/ ~Halted /\ ProcessNewBlock_Copy
    \/ ~Halted /\ ActivateBestChain_Call
    \/ ~Halted /\ ActivateBestChain_Done
    \/ ~Halted /\ ActivateBestChain_FromDisk

SpecCorrupt == Init /\ [][NextCorrupt]_vars

(***************************************************************************)
(* The operator invalidates a block, reconsiders it and has the best chain *)
(* activated, no block arriving in between.                                *)
(***************************************************************************)
\* ActivateBestChain(state): the passes repeated until there is nothing to do
RECURSIVE ActivateBestChainLoop(_, _)
ActivateBestChainLoop(s, blk) ==
    LET f == FindMostWorkChain(s)
    IN  IF f.ret = Null \/ f.ret = Tip(f.s.chain) THEN f.s
        ELSE ActivateBestChainLoop(ActivateBestChainStep(f.s, f.ret, blk), blk)

\* InvalidateBlock(state, pindex), ReconsiderBlock(state, pindex) and
\* ActivateBestChain(state), no local fault striking
InvalidateReconsiderActivate ==
    /\ Tip(chainActive) # Null
    /\ \E pindex \in DOMAIN mapBlockIndex \ {GenesisId} :
          LET i == InvalidateBlock(ChainState, pindex, NoFault)
              r == ReconsiderBlock(i.s, pindex)
              a == ActivateBestChainLoop(r, blocks)
          IN  /\ SetChainState(a)
              /\ lastOp' = [op |-> "InvalidateReconsiderActivate", ret |-> TRUE,
                            reason |-> "", mode |-> "valid", fShutdown |-> FALSE,
                            failure |-> "none", pindex |-> pindex,
                            pindexOldTip |-> Tip(chainActive)]
              /\ stepOps' = a.ops
    /\ settled' = TRUE
    /\ UNCHANGED <<abcRunning, blocks, nRestarts, coinVars>>

NextRoundTrip ==
    \/ ~Halted /\ ProcessNewBlock_New(MaxFaultBlocks)
    \/ ~Halted /\ ProcessNewBlock_Known
    \/ ~Halted /\ ActivateBestChain_Call
    \/ ~Halted /\ ActivateBestChain_Done
    \/ ~Halted /\ ActivateBestChain_Pass
    \/ ~Halted /\ InvalidateBlock_Call
    \/ ~Halted /\ ReconsiderBlock_Call
    \/ ~Halted /\ InvalidateReconsiderActivate

SpecRoundTrip == Init /\ [][NextRoundTrip]_vars

(***************************************************************************)
(* IsInitialBlockDownload and its latch.  Several threads call it; the     *)
(* flags, the heights and the age of the best header change as they will.  *)
(* The loads of the latch are relaxed: a thread that has not synchronised  *)
(* with the store (by taking cs_main after the storing thread released it, *)
(* or by reading the stored value once) may still read the old value.      *)
(***************************************************************************)
\* Heights of the active chain in the runs of IsInitialBlockDownload.
MaxIbdHeight == 2
\* Checkpoints::GetTotalBlocksEstimate()
nTotalBlocksEstimate == 1

\* pindexBestHeader->nHeight: near the active chain, or 24 * 6 blocks ahead of it
IbdHeaderHeights == (0..MaxIbdHeight) \cup {MaxIbdHeight + 24 * 6}

\* A latch that is never set.
LatchStore_Never(state, latch) == latch

\* if (!state) latchToFalse.store(true, std::memory_order_relaxed);
LatchStore(state, latch) == IF ~state THEN TRUE ELSE latch

\* The part of IsInitialBlockDownload after the tests of the latch: the value it returns
\* and the latch it leaves.
IsInitialBlockDownloadUnlatched(env, latch) ==
    IF \/ env.fImporting
       \/ env.fReindex
       \/ env.fVerifyingBlocks
       \/ env.chainHeight < nTotalBlocksEstimate
    THEN [ret |-> TRUE, latch |-> latch, at |-> "flags"]
    ELSE LET state == \/ env.chainHeight < env.nBestHeaderHeight - 24 * 6
                      \/ env.fHeaderOld
         IN  [ret |-> state, latch |-> LatchStore(state, latch), at |-> "state"]

\* latchToFalse.load(std::memory_order_relaxed) by thread t: the values it may read
LatchLoads(t) ==
    IF latchToFalse /\ ~ibdCalls[t].fSeen THEN {TRUE, FALSE} ELSE {latchToFalse}

RetName(ret) == IF ret THEN "true" ELSE "false"

\* Thread t calls IsInitialBlockDownload.
IsInitialBlockDownload_Call(t) ==
    /\ ibdCalls[t].pc = "idle"
    /\ ibdCalls' = [ibdCalls EXCEPT ![t] = [@ EXCEPT !.pc = "pretest",
                                                    !.fAfterFalse = ibdReturnedFalse,
                                                    !.ret = "none"]]
    /\ UNCHANGED <<latchToFalse, ibdEnv, ibdReturnedFalse, cs_main>>

\* The test of the latch before the lock is taken.
IsInitialBlockDownload_PreTest(t) ==
    /\ ibdCalls[t].pc = "pretest"
    /\ \E latch \in LatchLoads(t) :
          ibdCalls' = [ibdCalls EXCEPT ![t] =
                          IF latch
                          THEN [pc |-> "return", fSeen |-> TRUE,
                                fAfterFalse |-> @.fAfterFalse, ret |-> "false at pretest"]
                          ELSE [@ EXCEPT !.pc = "LOCK(cs_main)"]]
    /\ UNCHANGED <<latchToFalse, ibdEnv, ibdReturnedFalse, cs_main>>

\* LOCK(cs_main): what the earlier holders of the lock stored is visible from here on.
IsInitialBlockDownload_Lock(t) ==
    /\ ibdCalls[t].pc = "LOCK(cs_main)"
    /\ cs_main = Null
    /\ cs_main' = t
    /\ ibdCalls' = [ibdCalls EXCEPT ![t] = [@ EXCEPT !.pc = "locked", !.fSeen = latchToFalse]]
    /\ UNCHANGED <<latchToFalse, ibdEnv, ibdReturnedFalse>>

\* The section under cs_main: the second test of the latch, the flags, the heights and
\* the age of the best header, and the store to the latch.
IsInitialBlockDownload_Locked(t) ==
    /\ ibdCalls[t].pc = "locked"
    /\ cs_main = t
    /\ cs_main' = Null
    /\ \E latch \in LatchLoads(t) :
          IF latch
          THEN /\ ibdCalls' = [ibdCalls EXCEPT ![t] = [@ EXCEPT !.pc = "return",
                                                              !.ret = "false at second test"]]
               /\ UNCHANGED latchToFalse
          ELSE LET r == IsInitialBlockDownloadUnlatched(ibdEnv, latchToFalse)
               IN  /\ latchToFalse' = r.latch
                   /\ ibdCalls' = [ibdCalls EXCEPT ![t] =
                                      [@ EXCEPT !.pc = "return",
                                                !.fSeen = r.latch,
                                                !.ret = RetName(r.ret) \o " at " \o r.at]]
    /\ UNCHANGED <<ibdEnv, ibdReturnedFalse>>

\* The call of thread t returns to its caller.
IsInitialBlockDownload_Return(t) ==
    /\ ibdCalls[t].pc = "return"
    /\ ibdReturnedFalse' = (\/ ibdReturnedFalse
                            \/ ibdCalls[t].ret \notin {"true at flags", "true at state"})
    /\ ibdCalls' = [ibdCalls EXCEPT ![t] = [@ EXCEPT !.pc = "idle"]]
    /\ UNCHANGED <<latchToFalse, ibdEnv, cs_main>>

\* fImporting, fReindex, fVerifyingBlocks are set or cleared, or the best header gets
\* old or recent.
Ibd_SetFlag ==
    /\ \E flag \in {"fImporting", "fReindex", "fVerifyingBlocks", "fHeaderOld"} :
          ibdEnv' = [ibdEnv EXCEPT ![flag] = ~@]
    /\ UNCHANGED <<latchToFalse, ibdCalls, ibdReturnedFalse, cs_main>>

\* The active chain grows or shrinks.
Ibd_UpdateTip ==
    /\ \E h \in 0..MaxIbdHeight : ibdEnv' = [ibdEnv EXCEPT !.chainHeight = h]
    /\ UNCHANGED <<latchToFalse, ibdCalls, ibdReturnedFalse, cs_main>>

\* A header becomes the best header.
Ibd_BestHeader ==
    /\ \E h \in IbdHeaderHeights : ibdEnv' = [ibdEnv EXCEPT !.nBestHeaderHeight = h]
    /\ UNCHANGED <<latchToFalse, ibdCalls, ibdReturnedFalse, cs_main>>

\* The variables outside IsInitialBlockDownload and the lock.
restOfIbd == <<restOfScripts, scriptcheckqueue, connecting, threads, skipIndex>>

NextIbd ==
    /\ \/ \E t \in Threads :
             \/ IsInitialBlockDownload_Call(t)
             \/ IsInitialBlockDownload_PreTest(t)
             \/ IsInitialBlockDownload_Lock(t)
             \/ IsInitialBlockDownload_Locked(t)
             \/ IsInitialBlockDownload_Return(t)
       \/ Ibd_SetFlag
       \/ Ibd_UpdateTip
       \/ Ibd_BestHeader
    /\ UNCHANGED restOfIbd

SpecIbd == Init /\ [][NextIbd]_vars

(***************************************************************************)
(* DisconnectBlocks: the chain machine with the command that rewinds the   *)
(* active chain.  Local faults strike the activation of the best chain as  *)
(* before; the rewinding itself meets none.                                *)
(***************************************************************************)
\* The largest nBlocks of a call of DisconnectBlocks.
MaxRewind == 2

\* DisconnectTip(state) as DisconnectBlocks calls it, its result being ignored: a tip
\* without undo data (the genesis block) makes DisconnectBlock return DISCONNECT_FAILED
\* and stays.
DisconnectTipIgnored(s) ==
    IF ~s.idx[Tip(s.chain)].nStatus.haveUndo THEN s ELSE DisconnectTip(s)

\* for (int i = 0; i <= nBlocks; i++) DisconnectTip(state);
RECURSIVE DisconnectBlocksLoop(_, _, _)
DisconnectBlocksLoop(s, i, nBlocks) ==
    IF i <= nBlocks THEN DisconnectBlocksLoop(DisconnectTipIgnored(s), i + 1, nBlocks)
    ELSE s

\* DisconnectBlocks(nBlocks), the active chain having a tip
DisconnectBlocks(s, nBlocks) == DisconnectBlocksLoop(s, 0, nBlocks)

\* DisconnectBlocks is called.
DisconnectBlocks_Call ==
    /\ Tip(chainActive) # Null
    /\ \E nBlocks \in 0..MaxRewind :
          LET r == DisconnectBlocks(ChainState, nBlocks)
          IN  /\ SetChainState(r)
              /\ lastOp' = [op |-> "DisconnectBlocks", ret |-> TRUE, reason |-> "",
                            mode |-> "valid", fShutdown |-> FALSE, failure |-> "none",
                            nBlocks |-> nBlocks, nHeightBefore |-> Len(chainActive) - 1]
              /\ stepOps' = r.ops
    /\ settled' = FALSE
    /\ UNCHANGED <<abcRunning, blocks, nRestarts, coinVars>>

NextRewind ==
    \/ ~Halted /\ ProcessNewBlock_New(MaxFaultBlocks)
    \/ ~Halted /\ ProcessNewBlock_Known
    \/ ~Halted /\ ActivateBestChain_Call
    \/ ~Halted /\ ActivateBestChain_Done
    \/ ~Halted /\ ActivateBestChain_Pass
    \/ ~Halted /\ DisconnectBlocks_Call

SpecRewind == Init /\ [][NextRewind]_vars

(***************************************************************************)
(* Properties of the chain machine.                                        *)
(***************************************************************************)
\* The nodes on the path from the genesis block to p.
Ancestry(idx, p) == {PathTo(idx, p)[i] : i \in 1..Len(PathTo(idx, p))}

\* p and all its ancestors have their data and none of them is marked failed.
Usable(idx, p) ==
    \A q \in Ancestry(idx, p) : idx[q].nStatus.haveData /\ ~Failed(idx[q])

\* p has no child in the index.
IsLeaf(idx, p) == \A q \in DOMAIN idx : idx[q].pprev # p

\* Two nodes that meet in the comparator with equal sequence ids were loaded from disk.
SequenceIdsDecide ==
    \A p, q \in (setBlockIndexCandidates \cup {Tip(chainActive)}) \ {Null} :
        (p # q /\ mapBlockIndex[p].nSequenceId = mapBlockIndex[q].nSequenceId)
            => mapBlockIndex[p].nSequenceId = 0 /\ nRestarts > 0

\* C1: fork choice by work.  Once ActivateBestChain has returned true and no block
\* has been accepted since, no node that has its data and the data of all its
\* ancestors, and no failed node on its path, has more cumulative work than the tip
\* of the active chain; the tip is itself such a node.  The order in which the
\* competing tips were received plays no part.
C1_ForkChoiceByWork ==
    settled =>
        /\ Tip(chainActive) # Null
        /\ Usable(mapBlockIndex, Tip(chainActive))
        /\ \A p \in DOMAIN mapBlockIndex :
              Usable(mapBlockIndex, p) =>
                  mapBlockIndex[p].nChainWork <= mapBlockIndex[Tip(chainActive)].nChainWork

\* C1 witness: two usable tips of different work, the heavier one received later,
\* and the heavier one is the active tip after ActivateBestChain returned.
C1_Witness ==
    /\ settled
    /\ \E a, b \in DOMAIN mapBlockIndex :
          /\ a # b
          /\ IsLeaf(mapBlockIndex, a) /\ IsLeaf(mapBlockIndex, b)
          /\ Usable(mapBlockIndex, a) /\ Usable(mapBlockIndex, b)
          /\ mapBlockIndex[a].nChainWork > mapBlockIndex[b].nChainWork
          /\ mapBlockIndex[a].nSequenceId > mapBlockIndex[b].nSequenceId
          /\ Tip(chainActive) = a

\* In this step the active tip changes from one node to another node of the same
\* cumulative work.
TipReplacedByEqualWork ==
    /\ Tip(chainActive) # Null
    /\ Tip(chainActive') # Null
    /\ Tip(chainActive') # Tip(chainActive)
    /\ mapBlockIndex'[Tip(chainActive')].nChainWork = mapBlockIndex[Tip(chainActive)].nChainWork

\* C2 as stated: a block whose data was received later (it lies further in the block
\* file) and whose cumulative work equals that of the current tip never replaces
\* that tip, whether the nodes were received in this session or loaded from disk.
C2_LaterEqualWorkNeverReplaces ==
    [][TipReplacedByEqualWork =>
          mapBlockIndex'[Tip(chainActive')].nDataPos < mapBlockIndex[Tip(chainActive)].nDataPos]_vars

\* The tip is ahead of every other usable node of equal work: by a smaller sequence
\* id, or, when both carry sequence id 0, by a lower address.
TieBrokenForTip ==
    LET tip == mapBlockIndex[Tip(chainActive)]
    IN  \A q \in DOMAIN mapBlockIndex \ {Tip(chainActive)} :
            (Usable(mapBlockIndex, q) /\ mapBlockIndex[q].nChainWork = tip.nChainWork)
                => \/ tip.nSequenceId < mapBlockIndex[q].nSequenceId
                   \/ /\ tip.nSequenceId = 0
                      /\ mapBlockIndex[q].nSequenceId = 0
                      /\ tip.addr < mapBlockIndex[q].addr

\* C2 (amended): between nodes of equal cumulative work the smaller sequence id wins,
\* and between two nodes of sequence id 0, which are nodes loaded from disk, the
\* lower address wins, whatever the order in which the two were received: once
\* ActivateBestChain has returned, the tip precedes in that order every other usable
\* node of equal work.
C2_TieBreak ==
    settled => TieBrokenForTip

\* C2 witness: after ActivateBestChain returned, the tip is not the genesis block and
\* a usable leaf of the same work, linked later in the same session, is not the tip.
C2_Witness ==
    /\ settled
    /\ Tip(chainActive) # Null
    /\ Tip(chainActive) # GenesisId
    /\ \E q \in DOMAIN mapBlockIndex \ {Tip(chainActive)} :
          /\ IsLeaf(mapBlockIndex, q)
          /\ Usable(mapBlockIndex, q)
          /\ mapBlockIndex[q].nChainWork = mapBlockIndex[Tip(chainActive)].nChainWork
          /\ mapBlockIndex[q].nSequenceId > mapBlockIndex[Tip(chainActive)].nSequenceId
          /\ mapBlockIndex[Tip(chainActive)].nSequenceId > 0

\* What the chain machine holds besides its bookkeeping of calls.
chainData == <<mapBlockIndex, chainActive, setBlockIndexCandidates, mapBlocksUnlinked,
               nBlockSequenceId, pcoinsTip, vinfoBlockFile>>

\* This step is the locked section of ProcessNewBlock for block b, all the checks
\* that depend on the moment of the call passing.
SubmitStep(b) == ProcessNewBlockLocked(b, blocks', "none")

\* C4: a block that passes its checks, on a parent that is not marked failed, is
\* accepted and stored when submitted for the first time; submitted again, it gets
\* the "already have block" success and nothing is applied again: the index (status,
\* disk positions, sequence ids), the candidate set, the active chain, the coin view
\* and the block files are unchanged, and the ActivateBestChain call that follows an
\* earlier successful return finds nothing to do and changes nothing either.
C4_DuplicateIdempotent ==
    [][/\ \A b \in DOMAIN blocks' :
             (/\ lastOp'.op = "ProcessNewBlock"
              /\ b \notin DOMAIN mapBlockIndex
              /\ blocks'[b].fChecks
              /\ ~Failed(mapBlockIndex[blocks'[b].pprev])
              /\ SubmitStep(b))
                 => /\ lastOp'.ret
                    /\ lastOp'.reason = "stored"
                    /\ mapBlockIndex'[b].nStatus.haveData
       /\ \A b \in DOMAIN blocks :
             (/\ lastOp'.op = "ProcessNewBlock"
              /\ b \in DOMAIN mapBlockIndex
              /\ mapBlockIndex[b].nStatus.haveData
              /\ \A q \in Ancestry(mapBlockIndex, b) : ~Failed(mapBlockIndex[q])
              /\ SubmitStep(b))
                 => /\ lastOp'.ret
                    /\ lastOp'.reason = "already have block"
                    /\ abcRunning'
                    /\ UNCHANGED chainData
       /\ (settled /\ abcRunning /\ (ActivateBestChain_Done \/ ActivateBestChain_Step))
             => /\ lastOp'.op = "ActivateBestChain"
                /\ lastOp'.ret
                /\ UNCHANGED chainData]_vars

\* C4 witness: a block of the active chain has just been submitted again after
\* ActivateBestChain had returned, and the call said "already have block".
C4_Witness ==
    /\ settled
    /\ abcRunning
    /\ Len(chainActive) >= 2
    /\ lastOp.op = "ProcessNewBlock"
    /\ lastOp.ret
    /\ lastOp.reason = "already have block"

\* The length of the longest common prefix of two sequences.
RECURSIVE CommonPrefixLen(_, _)
CommonPrefixLen(a, b) ==
    IF a = <<>> \/ b = <<>> \/ Head(a) # Head(b) THEN 0
    ELSE 1 + CommonPrefixLen(Tail(a), Tail(b))

\* C9 as stated: a side chain of lower cumulative work than the active tip is held
\* as a candidate, that is its tip is in setBlockIndexCandidates.
C9_LowerWorkSideChainIsCandidate ==
    settled =>
        \A p \in DOMAIN mapBlockIndex :
            (/\ IsLeaf(mapBlockIndex, p)
             /\ Usable(mapBlockIndex, p)
             /\ mapBlockIndex[p].nChainWork < mapBlockIndex[Tip(chainActive)].nChainWork)
                => p \in setBlockIndexCandidates

\* No member of the candidate set sorts before (is worse than) the active tip.
NoCandidateWorseThanTip ==
    Tip(chainActive) # Null =>
        \A c \in setBlockIndexCandidates :
            ~CBlockIndexWorkComparator(mapBlockIndex, c, Tip(chainActive))

\* The tip operations of a step: the blocks of the old chain above the fork point
\* with the node aimed at are disconnected, tip first; then blocks of the path to
\* that node are connected, lowest first and without a gap; the new chain is the
\* result.
StepOpsInOrder(target) ==
    LET ops == stepOps'
        path == PathTo(mapBlockIndex, target)
        nFork == CommonPrefixLen(chainActive, path)
        nDisc == Len(chainActive) - nFork
        nConn == Len(ops) - nDisc
    IN  /\ nConn >= 0
        /\ \A i \in 1..nDisc : ops[i] = <<"disconnect", chainActive[Len(chainActive) - i + 1]>>
        /\ \A j \in 1..nConn : ops[nDisc + j] = <<"connect", path[nFork + j]>>
        /\ chainActive' = SubSeq(path, 1, nFork + nConn)

\* C9 (amended): a side chain of lower cumulative work than the active tip stays in
\* the block index but not in the candidate set (no candidate is ever worse than the
\* tip), and after ActivateBestChain has returned it is not the active chain (C1).
\* When a heavier node has become the best candidate, a step of ActivateBestChain
\* disconnects the active blocks down to the fork point, tip first, and connects the
\* blocks of the other branch in height order.  When all of them connect, the step
\* ends at the node aimed at, or earlier with more work on the active chain than
\* before, and ActivateBestChain then goes on with further steps; it returns only
\* when the tip is the node aimed at.
C9_SideChainReorg ==
    [][/\ NoCandidateWorseThanTip'
       /\ (abcRunning /\ ActivateBestChain_Step) =>
             LET target == FindMostWorkChain(ChainState).ret
             IN  /\ StepOpsInOrder(target)
                 /\ (\A p \in Ancestry(mapBlockIndex, target) : blocks[p].fValid)
                       => \/ Tip(chainActive') = target
                          \/ /\ abcRunning'
                             /\ Tip(chainActive) # Null =>
                                   mapBlockIndex[Tip(chainActive')].nChainWork
                                       > mapBlockIndex[Tip(chainActive)].nChainWork
                 /\ settled' => Tip(chainActive') = target]_vars

\* C9 witness: a step that disconnected one block and connected two blocks of a
\* branch that had less work than the tip until its second block arrived.
C9_Witness ==
    /\ settled
    /\ Len(stepOps) = 3
    /\ stepOps[1][1] = "disconnect"
    /\ stepOps[2][1] = "connect"
    /\ stepOps[3][1] = "connect"
    /\ mapBlockIndex[stepOps[2][2]].nChainWork < mapBlockIndex[stepOps[1][2]].nChainWork
    /\ Tip(chainActive) = stepOps[3][2]

\* The active chain starts at the genesis block and each of its blocks is the child
\* of the block below it.
Contiguous ==
    chainActive # <<>> =>
        /\ chainActive[1] = GenesisId
        /\ mapBlockIndex[chainActive[1]].pprev = Null
        /\ \A h \in 2..Len(chainActive) :
              mapBlockIndex[chainActive[h]].pprev = chainActive[h - 1]

\* Every candidate other than the tip sorts before (is worse than) the tip.
TipBeatsCandidates ==
    \A c \in setBlockIndexCandidates \ {Tip(chainActive)} :
        CBlockIndexWorkComparator(mapBlockIndex, c, Tip(chainActive))

\* C10 as stated: in every state in which cs_main is free the active chain is a
\* contiguous path from the genesis block and no candidate other than the tip
\* compares better than or equal to the tip.
C10_TipBestWheneverUnlocked ==
    /\ Contiguous
    /\ Tip(chainActive) # Null => TipBeatsCandidates

\* C10 (amended): in every state in which cs_main is free the active chain is a
\* contiguous path from the genesis block; once ActivateBestChain has returned true
\* and no block has been accepted since, the tip is in the candidate set and no other
\* candidate compares better than or equal to it.  Between the locked section of
\* ProcessNewBlock and the return of ActivateBestChain the set may hold better nodes.
C10_ActiveChainInvariant ==
    /\ Contiguous
    /\ settled => /\ Tip(chainActive) \in setBlockIndexCandidates
                  /\ TipBeatsCandidates

\* C10 witness: ActivateBestChain has returned with an active chain of two blocks
\* above the genesis block while the index holds a usable block off that chain.
C10_Witness ==
    /\ settled
    /\ Len(chainActive) = 3
    /\ \E p \in DOMAIN mapBlockIndex :
          Usable(mapBlockIndex, p) /\ ~Contains(mapBlockIndex, chainActive, p)

(***************************************************************************)
(* Properties of the chain machine with local faults and operator commands. *)
(***************************************************************************)
\* This step is a pass of ActivateBestChain that ran ActivateBestChainStep.
StepPass == abcRunning /\ ActivateBestChain_Pass

\* The nodes from the genesis block to p; no node when there is no p.
PathOrNull(idx, p) == IF p = Null THEN {Null} ELSE Ancestry(idx, p)

\* C11 as stated: when ActivateBestChainStep returns after a failed attempt, a Connect
\* having failed with a consensus violation or a tip operation with a local fault, the
\* tip of the active chain is the tip that was active before the attempt.
C11_TipRestoredOnFailure ==
    [][(StepPass /\ lastOp'.failure # "none") => Tip(chainActive') = Tip(chainActive)]_vars

\* C11 (amended): the active chain is a contiguous path from the genesis block in
\* every state, but a failed attempt is not rolled back.  When a Connect fails with a
\* consensus violation the step returns true with the tip at the parent of the block
\* that failed, which is now marked failed, and ActivateBestChain goes on with
\* another step; when the call at last returns true, the tip has at least the work
\* of the tip the call started from, if that block is still usable.  When a tip
\* operation fails with a local fault the call returns false at once and the tip
\* stays where the fault struck, an ancestor of the old tip or of the node aimed at.
C11_FailedAttemptNotRolledBack ==
    [][/\ Contiguous'
       /\ StepPass =>
             LET target == lastOp'.pindexMostWork
                 pindexOldTip == lastOp'.pindexOldTip
             IN  /\ lastOp'.failure = "consensus" =>
                       /\ lastOp'.ret
                       /\ abcRunning'
                       /\ \E p \in Ancestry(mapBlockIndex, target) :
                             /\ ~Failed(mapBlockIndex[p])
                             /\ mapBlockIndex'[p].nStatus.failedValid
                             /\ Tip(chainActive') = mapBlockIndex[p].pprev
                 /\ lastOp'.failure \in LocalFaultKinds =>
                       /\ ~lastOp'.ret
                       /\ ~abcRunning'
                       /\ ~settled'
                       /\ \/ Tip(chainActive') \in PathOrNull(mapBlockIndex, Tip(chainActive))
                          \/ Tip(chainActive') \in PathOrNull(mapBlockIndex, target)
                 /\ (settled' /\ pindexOldTip # Null /\ Usable(mapBlockIndex', pindexOldTip))
                       => mapBlockIndex'[Tip(chainActive')].nChainWork
                              >= mapBlockIndex'[pindexOldTip].nChainWork]_vars

\* C11 witness: a step has disconnected the old tip, failed to connect a block of the
\* heavier branch for a consensus violation, and returned with another tip than the
\* one the call started from.
C11_Witness ==
    /\ lastOp.op = "ActivateBestChainStep"
    /\ lastOp.failure = "consensus"
    /\ stepOps # <<>>
    /\ stepOps[1][1] = "disconnect"
    /\ lastOp.pindexOldTip # Null
    /\ Tip(chainActive) # lastOp.pindexOldTip
    /\ abcRunning

\* No block of the active chain is marked failed.
NoFailedOnChain(idx, chain) ==
    \A h \in 1..Len(chain) : ~Failed(idx[chain[h]])

\* This step is an InvalidateBlock that returned false for a local fault (every
\* other step but the call of ActivateBestChain, which sets abcRunning, leaves
\* another record in lastOp).
InvalidateFailedStep ==
    /\ lastOp'.op = "InvalidateBlock"
    /\ ~lastOp'.ret
    /\ abcRunning' = abcRunning

FailedNodes(idx) == {p \in DOMAIN idx : Failed(idx[p])}

\* C13: when a step of the reorganization fails with a local fault (a block or undo
\* data cannot be read or written, the flush fails), ActivateBestChain returns false
\* with the validation state an error and not "invalid", a shutdown of the node is
\* requested, no block index node gains a failure flag, and no node leaves the
\* candidate set other than those the selection and the connects before the fault
\* removed.
C13_LocalFaultAbortsNode ==
    [][(StepPass /\ lastOp'.failure \in LocalFaultKinds) =>
          LET f == FindMostWorkChain(ChainState)
          IN  /\ ~lastOp'.ret
              /\ ~abcRunning'
              /\ lastOp'.mode = "error"
              /\ lastOp'.fShutdown
              /\ FailedNodes(mapBlockIndex') = FailedNodes(f.s.idx)
              /\ \A c \in f.s.cand \ setBlockIndexCandidates' :
                    /\ Tip(chainActive') # Null
                    /\ CBlockIndexWorkComparator(mapBlockIndex', c, Tip(chainActive'))]_vars

Descendants(idx, p) == {q \in DOMAIN idx \ {p} : p \in Ancestry(idx, q)}

\* This step is an InvalidateBlock that returned true (every other step but the call
\* of ActivateBestChain, which sets abcRunning, leaves another record in lastOp).
InvalidateDoneStep ==
    /\ lastOp'.op = "InvalidateBlock"
    /\ lastOp'.ret
    /\ abcRunning' = abcRunning

\* C15 as stated: when no operation is in progress, every descendant in the block
\* index of a node that is flagged failed is flagged failed as well.
C15_DescendantsFlaggedOnReturn ==
    ~abcRunning =>
        \A p \in FailedNodes(mapBlockIndex) :
            Descendants(mapBlockIndex, p) \subseteq FailedNodes(mapBlockIndex)

\* C15 (amended): the operation that flags a node does not flag its descendants in
\* the index.  A failed Connect flags the failing block alone.  InvalidateBlock
\* flags the named block and, with BLOCK_FAILED_CHILD, the blocks of the active
\* chain above it; descendants off the active chain keep their status.  The other
\* descendants are flagged one path at a time: FindMostWorkChain flags, with
\* BLOCK_FAILED_CHILD, a node whose parent is failed, on the way down from a
\* candidate to its first failed ancestor.  A descendant that never is on such a
\* path stays unflagged, but ActivateBestChain connects no block that has a failed
\* ancestor off the active chain, and AcceptBlock puts no new block into the index
\* on a failed parent.
C15_FailurePropagatesLazily ==
    [][/\ StepPass =>
             LET f == FindMostWorkChain(ChainState)
                 flagged == FailedNodes(mapBlockIndex') \ FailedNodes(f.s.idx)
             IN  /\ \A i \in 1..Len(stepOps') :
                       stepOps'[i][1] = "connect" =>
                           \A a \in Ancestry(mapBlockIndex, stepOps'[i][2]) :
                               Failed(mapBlockIndex[a])
                                   => Contains(mapBlockIndex, chainActive, a)
                 /\ \A q \in FailedNodes(f.s.idx) \ FailedNodes(mapBlockIndex) :
                       /\ f.s.idx[q].nStatus.failedChild
                       /\ ~f.s.idx[q].nStatus.failedValid
                       /\ Failed(f.s.idx[mapBlockIndex[q].pprev])
                       /\ q \notin f.s.cand
                 /\ Cardinality(flagged) = IF lastOp'.failure = "consensus" THEN 1 ELSE 0
       /\ InvalidateDoneStep =>
             LET pindex == lastOp'.pindex
             IN  /\ mapBlockIndex'[pindex].nStatus.failedValid
                 /\ FailedNodes(mapBlockIndex') \ FailedNodes(mapBlockIndex) \subseteq
                       {pindex} \cup {q \in Descendants(mapBlockIndex, pindex) :
                                         Contains(mapBlockIndex, chainActive, q)}
                 /\ \A q \in Descendants(mapBlockIndex, pindex) :
                       Contains(mapBlockIndex, chainActive, q)
                           => mapBlockIndex'[q].nStatus.failedChild
       /\ \A b \in DOMAIN mapBlockIndex' \ DOMAIN mapBlockIndex :
             /\ ~Failed(mapBlockIndex[mapBlockIndex'[b].pprev])
             /\ lastOp'.op = "ProcessNewBlock"]_vars

\* C15 witness: InvalidateBlock has returned true for a block that has a child in
\* the index off the active chain; the child carries no failure flag.
C15_Witness ==
    /\ lastOp.op = "InvalidateBlock"
    /\ lastOp.ret
    /\ ~abcRunning
    /\ mapBlockIndex[lastOp.pindex].nStatus.failedValid
    /\ \E q \in Descendants(mapBlockIndex, lastOp.pindex) :
          /\ mapBlockIndex[q].nStatus.haveData
          /\ ~Failed(mapBlockIndex[q])

\* nStatus & BLOCK_VALID_MASK of node p
Tier(idx, p) == idx[p].nStatus.valid

\* C16 as stated: the validity tier of every block index node other than the genesis
\* block is at most the tier of its parent.
C16_TierAtMostParents ==
    \A p \in DOMAIN mapBlockIndex \ {GenesisId} :
        Tier(mapBlockIndex, p) <= Tier(mapBlockIndex, mapBlockIndex[p].pprev)

\* C16 (amended): every block index node is at least BLOCK_VALID_TREE; it is at
\* least BLOCK_VALID_TRANSACTIONS exactly when its block data has been received,
\* whatever the tier of its parent, which may still be header-only; it is
\* BLOCK_VALID_SCRIPTS only if its parent is BLOCK_VALID_SCRIPTS or is the genesis
\* block, which ConnectBlock never raises above BLOCK_VALID_TRANSACTIONS; and every
\* block of the active chain above the genesis block is BLOCK_VALID_SCRIPTS.
C16_TierOrdering ==
    /\ \A p \in DOMAIN mapBlockIndex :
          /\ Tier(mapBlockIndex, p) >= BLOCK_VALID_TREE
          /\ Tier(mapBlockIndex, p) >= BLOCK_VALID_TRANSACTIONS
                <=> mapBlockIndex[p].nStatus.haveData
          /\ mapBlockIndex[p].nStatus.haveData <=> mapBlockIndex[p].nTx > 0
    /\ Tier(mapBlockIndex, GenesisId) = BLOCK_VALID_TRANSACTIONS
    /\ \A p \in DOMAIN mapBlockIndex \ {GenesisId} :
          Tier(mapBlockIndex, p) > BLOCK_VALID_TRANSACTIONS =>
              \/ mapBlockIndex[p].pprev = GenesisId
              \/ Tier(mapBlockIndex, mapBlockIndex[p].pprev) = BLOCK_VALID_SCRIPTS
    /\ \A h \in 2..Len(chainActive) :
          Tier(mapBlockIndex, chainActive[h]) = BLOCK_VALID_SCRIPTS

\* C16 witness: the active chain has two blocks above the genesis block, the upper
\* one fully validated on a fully validated parent.
C16_Witness ==
    /\ Len(chainActive) = 3
    /\ Tier(mapBlockIndex, chainActive[3]) = BLOCK_VALID_SCRIPTS
    /\ Tier(mapBlockIndex, chainActive[2]) = BLOCK_VALID_SCRIPTS

\* The ancestors of p, p included, that are not on the active chain.
OffChainPath(p) ==
    {a \in Ancestry(mapBlockIndex, p) : ~Contains(mapBlockIndex, chainActive, a)}

\* Some node on the way from p to the active chain is failed or lacks its data.
BadPath(p) ==
    \E a \in OffChainPath(p) :
        Failed(mapBlockIndex[a]) \/ ~mapBlockIndex[a].nStatus.haveData

\* The nodes from p down to its highest failed or data-less ancestor off the active
\* chain, that ancestor left out.
AboveFirstBad(p) ==
    {q \in OffChainPath(p) :
        \A a \in OffChainPath(p) :
            (Failed(mapBlockIndex[a]) \/ ~mapBlockIndex[a].nStatus.haveData)
                => mapBlockIndex[a].nHeight < mapBlockIndex[q].nHeight}

LastFileCommitted ==
    /\ \A b \in diskFiles.blk.written : nFile[b] = nLastBlockFile => b \in diskFiles.blk.committed
    /\ \A b \in diskFiles.rev.written : nFile[b] = nLastBlockFile => b \in diskFiles.rev.committed

\* The flush is at the point where the coin view is written: the files have been
\* committed and the dirty index entries written.
FlushOrder ==
    flushPc.pc = "coins" => LastFileCommitted /\ setDirtyBlockIndex = {}

\* The index entry of block p is in the block tree database and says that the
\* node has the block's data, and the data is committed to its block file.
DurableBlock(p) ==
    /\ p \in DOMAIN pblocktree.idx
    /\ pblocktree.idx[p].nStatus.haveData
    /\ p \in diskFiles.blk.committed

\* The undo data of block p is committed to its undo file (the genesis block has none).
DurableUndo(p) == p # GenesisId => p \in diskFiles.rev.committed

\* C18: in every FlushStateToDisk that flushes the coin view, the block and undo
\* files are committed first, the dirty index entries are written next and the coin
\* view is flushed last, so that in every durable state the best block of the
\* durable coin view is a block whose block data, undo data and index entry are
\* already durable.
C18_BestBlockFullyDurable ==
    /\ FlushOrder
    /\ pcoinsdbview.best # Null =>
           DurableBlock(pcoinsdbview.best) /\ DurableUndo(pcoinsdbview.best)

\* LoadBlockIndexDB has just run after a crash, on a coin database that records a
\* best block.
LoadedAfterCrash == lastOp.op = "LoadBlockIndexDB" /\ pcoinsdbview.best # Null

\* The crash came between or during the steps of a flush.
CrashedInFlush == lastOp.crashedAt \in {"files", "index", "coins"}

\* The loaded index has node p and all its ancestors, each with its data, and the
\* data is in the block files.
DataAvailableUpTo(p) ==
    /\ p \in DOMAIN mapBlockIndex
    /\ \A q \in Ancestry(mapBlockIndex, p) :
           mapBlockIndex[q].nStatus.haveData /\ q \in diskFiles.blk.committed

\* Node p of the loaded index has more work than the tip and complete data: its own
\* and that of all its ancestors.
MoreWorkWithData(p) ==
    /\ mapBlockIndex[p].nChainWork > mapBlockIndex[Tip(chainActive)].nChainWork
    /\ \A q \in Ancestry(mapBlockIndex, p) : mapBlockIndex[q].nStatus.haveData

\* LoadBlockIndexDB after a crash has set the tip to the best block of the durable
\* coin view, and that block and its ancestors are in the index with their data.
TipRestored ==
    /\ Tip(chainActive) = pcoinsdbview.best
    /\ pcoinsTip.best = pcoinsdbview.best
    /\ DataAvailableUpTo(pcoinsdbview.best)

\* C19 as stated: after a crash at any point of a flush, LoadBlockIndexDB sets the
\* tip to the best block of the durable coin view, that block and its ancestors are
\* in the loaded index with data available, and every index node with more work
\* than that tip and complete data is in the candidate set.
C19_EveryHeavierNodeIsCandidate ==
    (LoadedAfterCrash /\ CrashedInFlush) =>
        /\ TipRestored
        /\ \A p \in DOMAIN mapBlockIndex :
               MoreWorkWithData(p) => p \in setBlockIndexCandidates

\* C19 as amended: after a crash at any point, inside a flush or outside,
\* LoadBlockIndexDB sets the tip to the best block of the durable coin view, that
\* block and its ancestors are in the loaded index with data available, and every
\* index node that has more work than that tip, complete data and no failure flag
\* of its own is in the candidate set.  A node that is flagged failed is not a
\* candidate, however much work it has; nor is any candidate flagged failed.
C19_CrashSafety ==
    LoadedAfterCrash =>
        /\ TipRestored
        /\ \A p \in DOMAIN mapBlockIndex :
               /\ (MoreWorkWithData(p) /\ ~Failed(mapBlockIndex[p]))
                      => p \in setBlockIndexCandidates
               /\ Failed(mapBlockIndex[p]) => p \notin setBlockIndexCandidates

\* C19 witness: the process crashed between the index write and the coin-view flush
\* of a ConnectTip; the loaded tip is the parent of the block that was being
\* connected, and that block is a candidate with more work.
C19_Witness ==
    /\ LoadedAfterCrash
    /\ lastOp.crashedAt = "coins"
    /\ \E p \in setBlockIndexCandidates :
           /\ mapBlockIndex[p].pprev = Tip(chainActive)
           /\ mapBlockIndex[p].nStatus.haveUndo

(***************************************************************************)
(* Properties of the coin machine.                                         *)
(***************************************************************************)
\* C3: whenever DisconnectBlock is run on the view that a successful ConnectBlock
\* (not just checking) of the same block left, it returns DISCONNECT_OK and the view
\* is again the view the block was connected to: the same unspent coins with their
\* value, script, height and coinbase/coinstake flags, and the same best block.
C3_ConnectDisconnectRoundTrip ==
    coinOp.op = "DisconnectBlock" =>
        /\ coinOp.ret
        /\ coinOp.reason = "DISCONNECT_OK"
        /\ View = coinOp.facts.before

\* C3 witness: a block in which a transaction spends a coin of the view and a second
\* one spends the output of the first has been connected and disconnected, and the
\* view holds the coins it held before.
C3_Witness ==
    /\ coinOp.op = "DisconnectBlock"
    /\ coinOp.reason = "DISCONNECT_OK"
    /\ Len(coinOp.facts.block.vtx) = 3
    /\ coinOp.facts.block.vtx[3].vin[1].hash = coinOp.facts.block.vtx[2]
    /\ coinOp.facts.block.vtx[2].vin[1] \in DOMAIN cacheCoins
    /\ View = coinOp.facts.before

\* The block of the facts f got as far as the check of its reward: it is not the
\* genesis block, it is of the kind its height asks for, its inputs are unspent
\* coins and the rewards it spends are mature.
ReachedRewardCheck(f) ==
    /\ f.nHeight > 0
    /\ f.fPoS = (f.nHeight >= chainParams.nPoSHeight)
    /\ f.fInputsOk
    /\ f.nMinDepth >= nCoinbaseMaturity

\* What the block creates: its outputs less its inputs, plus the fees of its
\* transactions other than the coinstake.
Minted(f) == (f.nOut - f.nIn) + f.nFees

\* The fees of the block of the facts f when it is proof-of-work, otherwise nothing.
PoWFees(f) == IF f.fPoS THEN 0 ELSE f.nFees

\* What the block may create: the block value, plus the fees in a proof-of-work block.
MintLimit(f) == GetBlockValue(f.nHeight, chainParams) + PoWFees(f)

\* The rule of the reward check for a block that mints nMinted.
RejectedIffOverLimit(f, nMinted) ==
    /\ nMinted > MintLimit(f) => ~coinOp.ret /\ coinOp.reason = "bad-cb-amount"
    /\ nMinted = MintLimit(f) => coinOp.reason # "bad-cb-amount"

\* C5 as stated: a block whose outputs less inputs exceed the block value (plus the
\* fees when it is proof-of-work) is rejected with bad-cb-amount, and a block whose
\* outputs less inputs are exactly that amount is not.  For a proof-of-work block
\* the fees may also be read as added on both sides.
C5_OutputsLessInputsAgainstLimit ==
    coinOp.op = "ConnectBlock" /\ ReachedRewardCheck(coinOp.facts) =>
        LET f == coinOp.facts
        IN  \/ RejectedIffOverLimit(f, f.nOut - f.nIn)
            \/ RejectedIffOverLimit(f, (f.nOut - f.nIn) + PoWFees(f))

\* C5 (amended): a block that reaches the reward check and whose minted value -- its
\* outputs less its inputs plus the fees of its transactions other than the
\* coinstake -- exceeds the block value (plus the fees when it is proof-of-work) is
\* rejected with bad-cb-amount; one whose minted value is exactly that amount is
\* accepted.
C5_RewardOverpay ==
    coinOp.op = "ConnectBlock" /\ ReachedRewardCheck(coinOp.facts) =>
        LET f == coinOp.facts
        IN  /\ Minted(f) > MintLimit(f) => ~coinOp.ret /\ coinOp.reason = "bad-cb-amount"
            /\ Minted(f) = MintLimit(f) => coinOp.ret /\ coinOp.reason # "bad-cb-amount"

\* C5 witness: a proof-of-stake block that carries a fee and whose coinstake mints
\* the block value and one unit more has been rejected with bad-cb-amount.
C5_Witness ==
    /\ coinOp.op = "ConnectBlock"
    /\ ReachedRewardCheck(coinOp.facts)
    /\ coinOp.facts.fPoS
    /\ coinOp.facts.nFees > 0
    /\ Minted(coinOp.facts) = MintLimit(coinOp.facts) + 1
    /\ coinOp.reason = "bad-cb-amount"

ReachedInputsCheck(f) ==
    /\ f.fLoose
    /\ f.fNew
    /\ ~f.fConflict
    /\ f.fInputsAvail
    /\ f.fFeeOk
    /\ chainParams.net = "regtest" \/ (f.fStandard /\ f.nFee # 0)

\* C7: a transaction that spends a coinbase or coinstake output less than
\* nCoinbaseMaturity blocks deep -- counted from the height of the tip plus one in
\* AcceptToMemoryPool and from the height of the block in ConnectBlock -- is never
\* accepted, and is rejected with bad-txns-premature-spend-of-coinbase-coinstake
\* when no earlier check rejects it; at a depth of nCoinbaseMaturity or more it is
\* not rejected for that reason, and is admitted to the pool when it passes the
\* other checks.
C7_MaturityEnforced ==
    LET f == coinOp.facts
        premature == "bad-txns-premature-spend-of-coinbase-coinstake"
    IN  /\ coinOp.op = "AcceptToMemoryPool" =>
              /\ f.nMinDepth < nCoinbaseMaturity =>
                    /\ ~coinOp.ret
                    /\ ReachedInputsCheck(f) => coinOp.reason = premature
              /\ f.nMinDepth >= nCoinbaseMaturity =>
                    /\ coinOp.reason # premature
                    /\ ReachedInputsCheck(f) /\ f.nFee >= 0 => coinOp.ret
        /\ coinOp.op = "ConnectBlock" /\ f.nHeight > 0 =>
              /\ f.nMinDepth < nCoinbaseMaturity =>
                    /\ ~coinOp.ret
                    /\ f.fPoS = (f.nHeight >= chainParams.nPoSHeight) /\ f.fInputsOk
                          => coinOp.reason = premature
              /\ f.nMinDepth >= nCoinbaseMaturity => coinOp.reason # premature

\* C7 witness: a transaction that passes every other check and spends a reward one
\* block short of maturity has been refused by the pool.
C7_Witness ==
    /\ coinOp.op = "AcceptToMemoryPool"
    /\ ReachedInputsCheck(coinOp.facts)
    /\ coinOp.facts.nMinDepth = nCoinbaseMaturity - 1
    /\ coinOp.reason = "bad-txns-premature-spend-of-coinbase-coinstake"

\* No two transactions of the pool spend the same outpoint.
NoSharedPrevout ==
    \A t \in mapTx, u \in mapTx :
        t # u => \A i \in 1..Len(t.vin), j \in 1..Len(u.vin) : t.vin[i] # u.vin[j]

\* C8: no two transactions of the pool spend the same outpoint; a transaction that
\* gets as far as the conflict check and has an input that a transaction of the pool
\* spends is rejected with txn-mempool-conflict, and the pool is what it was.
C8_MempoolConflict ==
    /\ NoSharedPrevout
    /\ /\ coinOp.op = "AcceptToMemoryPool"
       /\ coinOp.facts.fLoose
       /\ coinOp.facts.fNew
       /\ coinOp.facts.fConflict
       /\ chainParams.net = "regtest" \/ coinOp.facts.fStandard
       => /\ ~coinOp.ret
          /\ coinOp.reason = "txn-mempool-conflict"
          /\ Pool = coinOp.facts.pool

\* C8 witness: the pool holds a transaction, and another transaction that spends
\* the same outpoint has been rejected with txn-mempool-conflict.
C8_Witness ==
    /\ coinOp.op = "AcceptToMemoryPool"
    /\ coinOp.reason = "txn-mempool-conflict"
    /\ coinOp.facts.fConflict
    /\ coinOp.facts.fInputsAvail
    /\ mapTx # {}
    /\ Pool = coinOp.facts.pool

\* The transaction of the facts f fails at the check that all inputs exist: it is
\* neither a coinbase nor a coinstake, it is standard (where that is asked for), new
\* to the pool, without a conflict in it and with no output known to the view, and
\* one of its inputs is neither a coin of the view nor an output of a pool transaction.
FailsForMissingInput(f) ==
    /\ f.fLoose
    /\ chainParams.net = "regtest" \/ f.fStandard
    /\ f.fNew
    /\ ~f.fConflict
    /\ ~f.fKnown
    /\ ~f.fInputsAvail

\* C20: when AcceptToMemoryPool fails because an input of the transaction is found
\* neither in the coin view nor among the outputs of the pool, it returns false with
\* the missing-inputs flag set and the validation state not marked invalid (no
\* reject code, no misbehaviour score), and the pool is what it was; for every other
\* rejection, and for an admission, the missing-inputs flag is false.
C20_OrphanSignal ==
    coinOp.op = "AcceptToMemoryPool" =>
        /\ FailsForMissingInput(coinOp.facts) =>
               /\ ~coinOp.ret
               /\ coinOp.fMissingInputs
               /\ coinOp.state = ValidState
               /\ Pool = coinOp.facts.pool
        /\ ~FailsForMissingInput(coinOp.facts) => ~coinOp.fMissingInputs

\* C20 witness: the pool holds a transaction, and a transaction whose input nobody
\* has seen has been turned away with the missing-inputs flag set and a valid state.
C20_Witness ==
    /\ coinOp.op = "AcceptToMemoryPool"
    /\ ~coinOp.ret
    /\ coinOp.fMissingInputs
    /\ coinOp.state.mode = "valid"
    /\ ~coinOp.facts.fInputsAvail
    /\ mapTx # {}

(***************************************************************************)
(* Properties of the fee rules and of the trim.                            *)
(***************************************************************************)
\* A call of AcceptToMemoryPool with its arguments on record has returned, and the
\* transaction got as far as the fee rules.
AtFeeRules ==
    /\ coinOp.op = "AcceptToMemoryPool"
    /\ "args" \in DOMAIN coinOp
    /\ coinOp.facts.fLoose
    /\ coinOp.facts.fNew
    /\ ~coinOp.facts.fConflict
    /\ ~coinOp.facts.fKnown
    /\ coinOp.facts.fInputsAvail

\* The reasons of the relay-fee floor, of the priority rule and of the rate limiter.
RelayFeeReasons ==
    {"insufficient fee", "insufficient priority", "rate limited free transaction"}

\* The transaction of the call too large for the free allowance, its fee below the
\* relay fee for its size.
BelowFloor ==
    /\ GetTxSize(coinOp.tx) >= nFreeSize
    /\ coinOp.facts.nFee < GetFee(GetTxSize(coinOp.tx))

\* The transaction of the call too large for the free allowance, its fee the relay
\* fee for its size or more.
AtOrAboveFloor ==
    /\ GetTxSize(coinOp.tx) >= nFreeSize
    /\ coinOp.facts.nFee >= GetFee(GetTxSize(coinOp.tx))

\* The checks that come after the fee rules have nothing against the transaction.
PassesLaterChecks ==
    /\ coinOp.facts.nMinDepth >= nCoinbaseMaturity
    /\ coinOp.facts.nFee > 0 \/ chainParams.net = "regtest"

\* C21 as stated: with fLimitFree set, a transaction that is too large for the free
\* allowance and pays less than the relay fee for its size is rejected with the code
\* of an insufficient fee, and one that pays the relay fee or more is rejected by no
\* fee rule and is admitted unless a later check or the trim refuses it.
C21_FloorDecidesAdmission ==
    AtFeeRules /\ coinOp.args.fLimitFree =>
        /\ BelowFloor =>
              /\ ~coinOp.ret
              /\ coinOp.state.chRejectCode = "REJECT_INSUFFICIENTFEE"
        /\ AtOrAboveFloor =>
              /\ coinOp.reason \notin RelayFeeReasons \cup {"absurdly-high-fee"}
              /\ PassesLaterChecks => coinOp.ret \/ coinOp.reason = "mempool full"

\* C21: with fLimitFree set, fees not ignored and no positive delta recorded for it,
\* a transaction that is too large for the free allowance and pays less than the
\* relay fee for its size is rejected with "insufficient fee" and the code of an
\* insufficient fee, and the pool is what it was; with the fees ignored no rule of
\* the relay fee rejects it, and a transaction below the size of the allowance is
\* never rejected with "insufficient fee".  A transaction that pays the relay fee or more is
\* rejected by none of these rules; it is rejected with absurdly-high-fee exactly
\* when the caller asks for that check and the fee is more than nAbsurdFactor times
\* the relay fee, and otherwise admitted unless a later check or the trim refuses it.
C21_RelayFeeFloor ==
    AtFeeRules =>
        /\ BelowFloor /\ coinOp.args.fLimitFree /\ ~coinOp.args.ignoreFees
                /\ ~coinOp.args.fDelta =>
              /\ ~coinOp.ret
              /\ coinOp.reason = "insufficient fee"
              /\ coinOp.state = DoS(0, "REJECT_INSUFFICIENTFEE")
              /\ Pool = coinOp.facts.pool
        /\ coinOp.args.ignoreFees => coinOp.reason \notin RelayFeeReasons
        /\ GetTxSize(coinOp.tx) < nFreeSize => coinOp.reason # "insufficient fee"
        /\ AtOrAboveFloor =>
              /\ coinOp.reason \notin RelayFeeReasons
              /\ coinOp.reason = "absurdly-high-fee" <=>
                    /\ coinOp.args.fRejectAbsurdFee
                    /\ coinOp.facts.nFee > GetFee(GetTxSize(coinOp.tx)) * nAbsurdFactor
              /\ PassesLaterChecks /\ coinOp.reason # "absurdly-high-fee" =>
                    coinOp.ret \/ coinOp.reason = "mempool full"

\* C21 witness: with fLimitFree set and the fees not ignored, a transaction at the
\* size of the free allowance that pays one less than the relay fee has been
\* rejected with "insufficient fee", and the pool holds the same spend paying the
\* relay fee, admitted by an earlier call.
C21_Witness ==
    /\ AtFeeRules
    /\ BelowFloor
    /\ coinOp.args.fLimitFree /\ ~coinOp.args.ignoreFees /\ ~coinOp.args.fDelta
    /\ GetTxSize(coinOp.tx) = nFreeSize
    /\ coinOp.facts.nFee = GetFee(nFreeSize) - 1
    /\ coinOp.reason = "insufficient fee"
    /\ \E t \in mapTx :
          /\ GetTxSize(t) = nFreeSize
          /\ EntryFee(Pool, View, t) = GetFee(nFreeSize)

\* No fee rule has anything against the transaction of the call.
PassesFeeRules ==
    LET a == coinOp.args
        nFee == coinOp.facts.nFee
        nMinFee == GetFee(GetTxSize(coinOp.tx))
    IN  /\ \/ a.ignoreFees
           \/ nFee >= nMinFee
           \/ /\ ~a.fLimitFree \/ a.fDelta \/ GetTxSize(coinOp.tx) < nFreeSize
              /\ a.fPriorityOk
              /\ ~(a.fLimitFree /\ a.fRateLimited)
        /\ ~(a.fRejectAbsurdFee /\ nFee > nMinFee * nAbsurdFactor)

\* C22: when AcceptToMemoryPool returns true the transaction is in the pool and the
\* pool is within its ceiling; when it returns false for a transaction that was not
\* in the pool, the transaction is not in the pool; a transaction that passes every
\* check is either in the pool with the call returning true, or was evicted by the
\* trim with the call returning false, the reason "mempool full" and no misbehaviour
\* score; and "mempool full" is given for no other transaction.
C22_ResultMatchesMembership ==
    coinOp.op = "AcceptToMemoryPool" /\ "args" \in DOMAIN coinOp =>
        /\ coinOp.ret =>
              /\ coinOp.tx \in mapTx
              /\ DynamicMemoryUsage(Pool) <= nMaxMempool
        /\ ~coinOp.ret /\ coinOp.facts.fNew => coinOp.tx \notin mapTx
        /\ AtFeeRules /\ PassesFeeRules /\ PassesLaterChecks =>
              \/ coinOp.ret
              \/ /\ coinOp.reason = "mempool full"
                 /\ coinOp.state = DoS(0, "REJECT_INSUFFICIENTFEE")
        /\ coinOp.reason = "mempool full" =>
              AtFeeRules /\ PassesFeeRules /\ PassesLaterChecks /\ ~coinOp.ret

\* C22 witness: a transaction that passes every check was put in a pool that had no
\* room left for it and an entry that pays more, the trim took it out again, the
\* entry that pays more stayed, and the call returned false with "mempool full".
C22_Witness ==
    /\ AtFeeRules /\ PassesFeeRules /\ PassesLaterChecks
    /\ ~coinOp.ret
    /\ coinOp.reason = "mempool full"
    /\ coinOp.tx \notin mapTx
    /\ coinOp.old = {}
    /\ \E t \in mapTx : EntryFee(Pool, View, t) > coinOp.facts.nFee

(***************************************************************************)
(* Properties of ConnectBlock and the queue of script checks               *)
(***************************************************************************)
\* The script checks ConnectBlock has handed to the queue for the block so far.
QueuedChecks ==
    IF connecting.pc # "idle" /\ connecting.fQueue
    THEN UNION {ChecksOf(connecting.vtx, k) : k \in 1..(connecting.i - 1)}
    ELSE {}

\* Every check handed to the queue has been taken and reported.
QueueDrained ==
    /\ scriptcheckqueue.nTodo = 0
    /\ scriptcheckqueue.queue = {}
    /\ \A w \in 0..nScriptCheckWorkers : scriptcheckqueue.busy[w] = NoJob

\* ConnectBlock is past control.Wait() on the way to connecting the block, or has
\* left one of the marks of a connected block.
PastBarrier ==
    /\ connecting.pc # "idle"
    /\ \/ connecting.pc \in {"undo", "best", "tip"}
       \/ connecting.fUndo
       \/ connecting.fValidScripts
       \/ connecting.fBestBlock
       \/ connecting.fTip
       \/ connecting.pc = "done" /\ connecting.ret

Touches(t) == threads[t].pc \in Reads \cup Mutates

\* C24: with several threads in ProcessNewBlock, ActivateBestChain, ReprocessBlocks
\* and AcceptToMemoryPool, a thread that changes the block index, the candidates, the
\* unlinked blocks or the active chain, or connects or disconnects a block, holds
\* cs_main, and no other thread reads or writes these structures meanwhile.
C24_NoAccessWhileMutating ==
    \A t \in Threads :
        threads[t].pc \in Mutates =>
            /\ cs_main = t
            /\ \A u \in Threads \ {t} : ~Touches(u)

\* The part of C24 that holds: mutations are done under cs_main, one thread at a time.
C24_MutationsUnderLock ==
    \A t \in Threads :
        threads[t].pc \in Mutates =>
            /\ cs_main = t
            /\ \A u \in Threads \ {t} : threads[u].pc \notin Mutates

(***************************************************************************)
(* Properties of the connection of the genesis block                       *)
(***************************************************************************)
\* ConnectBlock has just been called, not just checking, for the genesis block; the
\* view it was called on was empty, with no best block.
GenesisConnectCalled ==
    /\ coinOp.op = "ConnectBlock"
    /\ ~coinOp.fJustCheck
    /\ coinOp.facts.nHeight = 0

\* The view that holds the outputs of the coinbase of the genesis block, and nothing
\* else.
GenesisCoins ==
    AddCoins([cacheCoins |-> NoCoins, hashBlock |-> Null], GenesisVtx.vtx[1], 0, 0).cacheCoins

\* C25 as stated: connecting the genesis block to an empty view succeeds and leaves
\* in the view exactly the outputs of the genesis coinbase, unspent, and the genesis
\* block as best block.
C25_GenesisOutputsInView ==
    GenesisConnectCalled =>
        /\ coinOp.ret
        /\ cacheCoins = GenesisCoins
        /\ hashBlock = 0

\* C25: connecting the genesis block to an empty view succeeds and sets the best
\* block of the view to the genesis block; its transactions are not connected, so
\* the view stays empty and the outputs of the genesis coinbase are never coins.
C25_GenesisLeavesViewEmpty ==
    GenesisConnectCalled =>
        /\ coinOp.ret
        /\ cacheCoins = NoCoins
        /\ hashBlock = 0
        /\ vConnected = <<>>

\* C25 witness: the genesis block has been connected to the empty view.
C25_Witness ==
    /\ GenesisConnectCalled
    /\ coinOp.ret
    /\ hashBlock = 0
    /\ GenesisCoins # NoCoins

(***************************************************************************)
(* Properties of DisconnectBlock on a view out of step with the block      *)
(***************************************************************************)
\* DisconnectTip has just called DisconnectBlock and got the result res.
DisconnectTipGot(res) ==
    /\ coinOp.op = "DisconnectBlock"
    /\ coinOp.reason = res

\* The tip is still the block DisconnectTip was to disconnect.
TipKept ==
    /\ hashBlock = HeightOf(coinOp.facts.block)
    /\ vConnected # <<>>
    /\ vConnected[Len(vConnected)].block = coinOp.facts.block

\* Every DisconnectBlock of the run of VerifyDB that found the view out of step and
\* did not fail for the undo data rolled the block back and returned
\* DISCONNECT_UNCLEAN, and one that found it in step returned DISCONNECT_OK.
UncleanNotFailed ==
    coinOp.op = "VerifyDB" =>
        \A k \in DOMAIN coinOp.facts.results :
            LET r == coinOp.facts.results[k]
            IN  r.res # "DISCONNECT_FAILED" =>
                    /\ r.res = "DISCONNECT_UNCLEAN" <=> OutOfStep(r.block, r.before)
                    /\ RolledBack(r.block, r.after)

\* VerifyDB goes on to the block below after DISCONNECT_UNCLEAN and after
\* DISCONNECT_OK, stops at DISCONNECT_FAILED, and returns false after either.
VerifyDBDistinguishes ==
    coinOp.op = "VerifyDB" /\ coinOp.facts.nCheckLevel >= 3 =>
        LET res == coinOp.facts.results
        IN  /\ \A k \in DOMAIN res :
                  /\ res[k].res = "DISCONNECT_FAILED" => k = Len(res)
                  /\ res[k].res # "DISCONNECT_FAILED" /\ k < coinOp.facts.nBlocks
                        => k < Len(res)
            /\ coinOp.ret <=> \A k \in DOMAIN res : res[k].res = "DISCONNECT_OK"

\* C26 as stated: DisconnectBlock on a view out of step with the block completes the
\* rollback and returns DISCONNECT_UNCLEAN, not DISCONNECT_FAILED, and each of its
\* callers, DisconnectTip and VerifyDB, treats DISCONNECT_UNCLEAN otherwise than
\* DISCONNECT_FAILED when it decides whether to go on rewinding: after
\* DISCONNECT_FAILED it stops, after DISCONNECT_UNCLEAN it goes on.
C26_CallersDistinguishUnclean ==
    /\ UncleanNotFailed
    /\ VerifyDBDistinguishes
    /\ DisconnectTipGot("DISCONNECT_FAILED") => ~coinOp.ret /\ TipKept
    /\ DisconnectTipGot("DISCONNECT_UNCLEAN") => coinOp.ret /\ ~TipKept

\* C26: DisconnectBlock on a view out of step with the block completes the rollback
\* and returns DISCONNECT_UNCLEAN, not DISCONNECT_FAILED.  VerifyDB tells the two
\* apart: it stops at DISCONNECT_FAILED and goes on to the block below after
\* DISCONNECT_UNCLEAN.  DisconnectTip does not: after either it returns false, the
\* rollback is dropped with the cache and the tip stays.
C26_UncleanDisconnect ==
    /\ UncleanNotFailed
    /\ VerifyDBDistinguishes
    /\ DisconnectTipGot("DISCONNECT_FAILED") => ~coinOp.ret /\ TipKept
    /\ DisconnectTipGot("DISCONNECT_UNCLEAN") => ~coinOp.ret /\ TipKept
    /\ DisconnectTipGot("DISCONNECT_OK") => coinOp.ret /\ ~TipKept

\* C26 witness: VerifyDB got DISCONNECT_UNCLEAN for the tip block, whose output was
\* not in the view, and went on to disconnect the block below.
C26_Witness ==
    /\ coinOp.op = "VerifyDB"
    /\ Len(coinOp.facts.results) = 2
    /\ coinOp.facts.results[1].res = "DISCONNECT_UNCLEAN"
    /\ OutOfStep(coinOp.facts.results[1].block, coinOp.facts.results[1].before)
    /\ RolledBack(coinOp.facts.results[1].block, coinOp.facts.results[1].after)
    /\ ~coinOp.ret

(***************************************************************************)
(* Properties of TestBlockValidity                                         *)
(***************************************************************************)
\* The step is a call of TestBlockValidity.
TestBlockValidityStep ==
    /\ coinOp = NoCoinOp
    /\ coinOp'.op = "ConnectBlock"
    /\ coinOp'.fJustCheck

\* C27: a call of TestBlockValidity, whether it accepts the block or rejects it,
\* leaves the coins and the best block of the view at the tip, the active chain, the
\* block index with its statuses, the candidates, the undo data and the files on
\* disk, and the memory pool as they were before the call.
C27_TestBlockValidityFrame ==
    [][TestBlockValidityStep =>
          /\ cacheCoins' = cacheCoins
          /\ hashBlock' = hashBlock
          /\ UNCHANGED <<chainActive, mapBlockIndex, setBlockIndexCandidates,
                         mapBlocksUnlinked, pcoinsTip>>
          /\ UNCHANGED <<vConnected, diskFiles, pblocktree, pcoinsdbview, vinfoBlockFile>>
          /\ UNCHANGED <<mapTx, mapNextTx>>]_vars

\* C27 witness: TestBlockValidity has accepted a block that spends coins of the view
\* and creates new ones.
C27_Witness ==
    /\ coinOp.op = "ConnectBlock"
    /\ coinOp.fJustCheck
    /\ coinOp.ret
    /\ coinOp.facts.nIn > 0
    /\ coinOp.facts.nOut > 0

(***************************************************************************)
(* Properties of the checks of a transaction that need no context          *)
(***************************************************************************)
\* The transaction the check in progress was called on.
CheckedTx == coinOp.facts.tx

\* The check in progress is CheckTransaction, or a caller's use of it on a
\* transaction that passes CheckSpecialTx.
AtCheckTransaction ==
    \/ coinOp.op = "CheckTransaction"
    \/ /\ coinOp.op \in {"CheckBlock", "AcceptToMemoryPoolWorker"}
       /\ CheckSpecialTx(CheckedTx) = ""

C29_SpecialTxNoContext ==
    coinOp.op \in {"CheckSpecialTxNoContext", "CheckBlock", "AcceptToMemoryPoolWorker"} =>
        LET tx == CheckedTx
            fReject == \/ tx.nVersion = "LEGACY" /\ tx.nType # "NORMAL"
                       \/ /\ tx.nVersion = "SAPLING"
                          /\ \/ tx.nType = "NORMAL" /\ tx.extraPayload # Null
                             \/ tx.nType # "NORMAL" /\ tx.extraPayload = Null
                             \/ /\ tx.nType # "NORMAL"
                                /\ tx.extraPayload # Null
                                /\ tx.extraPayload > MAX_SPECIALTX_EXTRAPAYLOAD
                             \/ /\ tx.nType \notin {"NORMAL", "PROREG"}
                                /\ tx.extraPayload = MAX_SPECIALTX_EXTRAPAYLOAD
        IN  /\ fReject => ~coinOp.ret
            /\ (/\ coinOp.op = "CheckSpecialTxNoContext"
                /\ tx.nVersion = "SAPLING"
                /\ tx.nType = "NORMAL"
                /\ tx.extraPayload = Null) => coinOp.ret

\* C29 witness: AcceptToMemoryPoolWorker has rejected a transaction of an unknown
\* type whose payload is exactly as large as the limit.
C29_Witness ==
    /\ coinOp.op = "AcceptToMemoryPoolWorker"
    /\ CheckedTx.nVersion = "SAPLING"
    /\ CheckedTx.nType = "unknown"
    /\ CheckedTx.extraPayload = MAX_SPECIALTX_EXTRAPAYLOAD
    /\ ~coinOp.ret
    /\ coinOp.reason = "with invalid type"

(***************************************************************************)
(* Properties of the skip pointers                                         *)
(***************************************************************************)
\* The entry reached from n by following pprev k times.
RECURSIVE FollowPprev(_, _, _)
FollowPprev(index, n, k) ==
    IF k = 0 THEN n ELSE FollowPprev(index, index[n].pprev, k - 1)

\* C30: for every entry n of a block index whose pskip pointers BuildSkip has set,
\* and every height h from 0 to n.nHeight, n.GetAncestor(h) comes to an end and
\* returns the entry reached from n by following pprev n.nHeight - h times; for
\* h < 0 and for h > n.nHeight it returns null.
C30_AncestorQueries ==
    \A n \in DOMAIN skipIndex :
        /\ \A h \in 0..skipIndex[n].nHeight :
              GetAncestorBySkip(skipIndex, n, h)
                  = FollowPprev(skipIndex, n, skipIndex[n].nHeight - h)
        /\ GetAncestorBySkip(skipIndex, n, -1) = Null
        /\ GetAncestorBySkip(skipIndex, n, skipIndex[n].nHeight + 1) = Null

\* C30 witness: an index with a fork, where two entries at the same height of 6 or
\* more have skip pointers into their own branches and the query for height 1 is
\* answered.
C30_Witness ==
    \E n, m \in DOMAIN skipIndex :
        /\ n # m
        /\ skipIndex[n].nHeight = skipIndex[m].nHeight
        /\ skipIndex[n].nHeight >= 6
        /\ skipIndex[n].pskip # skipIndex[n].pprev
        /\ skipIndex[n].pskip # skipIndex[m].pskip
        /\ GetAncestorBySkip(skipIndex, n, 1) = FollowPprev(skipIndex, n, skipIndex[n].nHeight - 1)
(***************************************************************************)
(* Properties of the strides of ActivateBestChainStep                      *)
(***************************************************************************)
\* The height of a block of the index, -1 for no block.
HeightOrMinusOne(p) == IF p = Null THEN -1 ELSE mapBlockIndex[p].nHeight

\* An ActivateBestChainStep has returned, and these were its calls of ConnectTip.
StrideCalls == IF "calls" \in DOMAIN lastOp THEN lastOp.calls ELSE <<>>

\* C31: in an ActivateBestChainStep the blocks are handed to ConnectTip one at a
\* time in strictly increasing height, the first at the height of the fork point plus
\* one, and each of them has the tip of that moment as its parent (the assertion of
\* ConnectTip holds), also when the fork point is null and when pindexMostWork is
\* more than one stride above the fork point.
C31_SequentialConnectOrder ==
    \A i \in 1..Len(StrideCalls) :
        /\ mapBlockIndex[StrideCalls[i].pindexNew].pprev = StrideCalls[i].tip
        /\ mapBlockIndex[StrideCalls[i].pindexNew].nHeight
               = HeightOrMinusOne(lastOp.pindexFork) + i

\* C31 witness: a step that disconnected a block and connected more blocks than one
\* stride holds.
C31_Witness ==
    /\ Len(StrideCalls) > nStride
    /\ lastOp.pindexFork # Null
    /\ lastOp.pindexOldTip # lastOp.pindexFork
    /\ \A i \in 1..Len(StrideCalls) : Contains(mapBlockIndex, chainActive, StrideCalls[i].pindexNew)
(***************************************************************************)
(* Properties of ActivateBestChain as a loop                               *)
(***************************************************************************)
\* ActivateBestChain has just returned true.
ActivateBestChainReturnedTrue ==
    /\ ~abcRunning
    /\ lastOp.op \in {"ActivateBestChain", "ActivateBestChainStep"}
    /\ lastOp.ret
    /\ lastOp.reason \in {"nothing to do", "tip reached"}

\* The candidates whose way down to the active chain has no failed and no
\* data-missing block.
UsableCandidates ==
    {c \in setBlockIndexCandidates : FirstUnusable(ChainState, c) = Null}

\* The tip is what FindMostWorkChain selects: the best of the usable candidates.
TipIsSelected ==
    /\ Tip(chainActive) # Null
    /\ FindMostWorkChain(ChainState).ret = Tip(chainActive)
    /\ Tip(chainActive) \in UsableCandidates
    /\ Tip(chainActive) = Best(mapBlockIndex, UsableCandidates)

\* C32: while no block arrives and no local fault strikes, every call of
\* ActivateBestChain returns, and when it returns true the active tip is the candidate
\* FindMostWorkChain selects, the best candidate without a failed or data-missing
\* ancestor, also when candidate blocks failed to connect on the way.
C32_ActivationTerminatesAtBest ==
    /\ [](ActivateBestChainReturnedTrue => TipIsSelected)
    /\ (abcRunning ~> ~abcRunning)

\* C32 witness: ActivateBestChain has returned true with a tip other than the genesis
\* block after a block with more work than the tip had failed to connect.
C32_Witness ==
    /\ ActivateBestChainReturnedTrue
    /\ Tip(chainActive) # Null
    /\ Tip(chainActive) # GenesisId
    /\ \E p \in DOMAIN mapBlockIndex :
          /\ mapBlockIndex[p].nStatus.failedValid
          /\ mapBlockIndex[p].nChainWork > mapBlockIndex[Tip(chainActive)].nChainWork
(***************************************************************************)
(* Properties of the candidate set as CheckBlockIndex checks it            *)
(***************************************************************************)
\* CheckBlockIndex: pindexFirstMissing != NULL at node p
FirstMissing(idx, p) == \E q \in Ancestry(idx, p) : ~idx[q].nStatus.haveData

\* CheckBlockIndex: pindexFirstInvalid != NULL at node p
FirstInvalid(idx, p) == \E q \in Ancestry(idx, p) : idx[q].nStatus.failedValid

\* CheckBlockIndex: the two assertions on setBlockIndexCandidates, for every node
CandidateAssertions(idx, chain, cand) ==
    chain # <<>> =>
        \A p \in DOMAIN idx :
            IF ~CBlockIndexWorkComparator(idx, p, Tip(chain)) /\ ~FirstMissing(idx, p)
            THEN ~FirstInvalid(idx, p) => p \in cand
            ELSE p \notin cand

\* CheckBlockIndex has just been reached: by ProcessNewBlock after AcceptBlock, with
\* AcceptBlockHeader before it, or by ActivateBestChain after its loop.
AtCheckBlockIndex ==
    \/ lastOp.op = "ProcessNewBlock"
    \/ lastOp.op = "ActivateBestChainStep" /\ lastOp.ret /\ lastOp.reason = "tip reached"

\* C33 as stated: whenever ActivateBestChain, AcceptBlockHeader or ProcessNewBlock
\* reaches CheckBlockIndex, every node that does not sort worse than the tip, has its
\* data and that of all its ancestors and has no invalid ancestor is in
\* setBlockIndexCandidates, and every node that sorts worse than the tip or has an
\* ancestor without data is not in it.
C33_CandidateSetConsistency ==
    AtCheckBlockIndex =>
        CandidateAssertions(mapBlockIndex, chainActive, setBlockIndexCandidates)
(***************************************************************************)
(* C34.  ReceivedBlockTransactions links late-arriving data.               *)
(***************************************************************************)
\* The nodes that wait in mapBlocksUnlinked below the nodes of D, with D itself.
RECURSIVE WaitingBelow(_, _)
WaitingBelow(unl, D) ==
    LET D2 == D \cup {unl[i][2] : i \in {j \in DOMAIN unl : unl[j][1] \in D}}
    IN  IF D2 = D THEN D ELSE WaitingBelow(unl, D2)

\* The step is a ProcessNewBlock in which ReceivedBlockTransactions recorded the data of b.
DataRecorded(b) ==
    /\ lastOp'.op = "ProcessNewBlock"
    /\ lastOp'.reason = "stored"
    /\ b \in DOMAIN mapBlockIndex'
    /\ mapBlockIndex'[b].nStatus.haveData
    /\ b \notin DOMAIN mapBlockIndex \/ ~mapBlockIndex[b].nStatus.haveData

\* The parent of b was linked when the data of b arrived.
ParentLinked(b) ==
    \/ blocks'[b].pprev = Null
    \/ mapBlockIndex[blocks'[b].pprev].nChainTx # 0

\* What ReceivedBlockTransactions has done to the linked node p.
LinkedByStep(p) ==
    LET n == mapBlockIndex'[p]
    IN  /\ n.nChainTx = (IF n.pprev = Null THEN 0 ELSE mapBlockIndex'[n.pprev].nChainTx) + n.nTx
        /\ n.nChainTx # 0
        /\ n.nSequenceId >= nBlockSequenceId
        /\ n.nSequenceId < nBlockSequenceId'
        /\ (chainActive = <<>> \/ ~CBlockIndexWorkComparator(mapBlockIndex', p, Tip(chainActive)))
               => p \in setBlockIndexCandidates'
        /\ \A i \in DOMAIN mapBlocksUnlinked' : mapBlocksUnlinked'[i][2] # p

\* C34: when ReceivedBlockTransactions records the data of a block whose parent is
\* linked (or which is the genesis block), the block and every node waiting below it
\* in mapBlocksUnlinked get nChainTx = parent's nChainTx + nTx and a fresh sequence id,
\* the ids strictly increasing from parent to child and all different, enter the
\* candidate set when they do not sort worse than the tip, and leave
\* mapBlocksUnlinked; when the parent is not linked the block keeps sequence id 0,
\* is no candidate and is recorded in mapBlocksUnlinked under its parent.
C34_LateDataIsLinked ==
    [][\A b \in DOMAIN mapBlockIndex' :
          DataRecorded(b) =>
              LET D == WaitingBelow(mapBlocksUnlinked, {b})
              IN  IF ParentLinked(b)
                  THEN /\ \A p \in D : LinkedByStep(p)
                       /\ \A p, q \in D :
                              p # q => mapBlockIndex'[p].nSequenceId # mapBlockIndex'[q].nSequenceId
                       /\ \A p \in D \ {b} :
                              mapBlockIndex'[p].nSequenceId
                                  > mapBlockIndex'[mapBlockIndex'[p].pprev].nSequenceId
                       /\ nBlockSequenceId' = nBlockSequenceId + Cardinality(D)
                  ELSE /\ mapBlockIndex'[b].nSequenceId = 0
                       /\ mapBlockIndex'[b].nChainTx = 0
                       /\ b \notin setBlockIndexCandidates'
                       /\ mapBlocksUnlinked' = Append(mapBlocksUnlinked, <<blocks'[b].pprev, b>>)
                       /\ nBlockSequenceId' = nBlockSequenceId]_vars

\* The data of a block has just arrived after the data of its child and of its
\* grandchild, and the three were linked together, the grandchild last.
C34_Witness ==
    /\ lastOp.op = "ProcessNewBlock"
    /\ lastOp.reason = "stored"
    /\ mapBlocksUnlinked = <<>>
    /\ \E p, c, g \in DOMAIN mapBlockIndex :
           /\ mapBlockIndex[c].pprev = p
           /\ mapBlockIndex[g].pprev = c
           /\ mapBlockIndex[c].nDataPos < mapBlockIndex[p].nDataPos
           /\ mapBlockIndex[g].nDataPos < mapBlockIndex[p].nDataPos
           /\ mapBlockIndex[p].nSequenceId + 1 = mapBlockIndex[c].nSequenceId
           /\ mapBlockIndex[c].nSequenceId + 1 = mapBlockIndex[g].nSequenceId
           /\ mapBlockIndex[g].nSequenceId + 1 = nBlockSequenceId
           /\ g \in setBlockIndexCandidates
(***************************************************************************)
(* C35.  Corruption is not a consensus verdict.                            *)
(***************************************************************************)
\* The step has rejected a copy of block b on which CheckBlock said "corruption
\* possible": in ProcessNewBlock, or in ConnectBlock while b was being connected.
CorruptCopyRejected(b) ==
    /\ lastOp' # lastOp \/ ChainState' # ChainState
    /\ "verdict" \in DOMAIN lastOp'
    /\ lastOp'.verdict = "corrupt"
    /\ lastOp'.pindex = b

\* What AcceptBlock answers to an intact copy of block b in the chain state s.
AnswerToIntactCopy(s, b) ==
    LET a == AcceptBlock(s, b, blocks', "none")
    IN  <<a.ret, a.reason>>

\* C35: a step that rejects a copy of a block because its check fails with the
\* corruption-possible flag set, in ProcessNewBlock/AcceptBlock or while connecting,
\* does not flag the block BLOCK_FAILED_VALID, and AcceptBlock answers to an intact
\* copy of the block after the step what it would have answered before.
C35_CorruptionIsNoVerdict ==
    [][\A b \in DOMAIN blocks' :
          CorruptCopyRejected(b) =>
              /\ ~lastOp'.ret
              /\ b \in DOMAIN mapBlockIndex' =>
                     /\ b \in DOMAIN mapBlockIndex
                     /\ mapBlockIndex'[b].nStatus = mapBlockIndex[b].nStatus
              /\ AnswerToIntactCopy(ChainState', b) = AnswerToIntactCopy(ChainState, b)]_vars

\* ConnectBlock has found the copy on disk of a block corrupted while connecting it:
\* the node shuts down, and the block has its data and no failure flag.
C35_Witness ==
    /\ lastOp.op = "ActivateBestChainStep"
    /\ lastOp.verdict = "corrupt"
    /\ lastOp.fShutdown
    /\ mapBlockIndex[lastOp.pindex].nStatus.haveData
    /\ ~mapBlockIndex[lastOp.pindex].nStatus.failedValid
    /\ lastOp.pindex # GenesisId
    /\ stepOps # <<>>
(***************************************************************************)
(* C36.  The coin view tracks the active tip.                              *)
(***************************************************************************)
\* C36: in every state in which cs_main is free, the best block of the coin view
\* pcoinsTip is the tip of the active chain (so that the assertions of ConnectBlock
\* and DisconnectBlock on the best block of the view hold in the next ConnectTip or
\* DisconnectTip), also after a ConnectTip or DisconnectTip that returned false
\* because FlushStateToDisk failed.
C36_ViewTracksTip ==
    pcoinsTip.best = Tip(chainActive)
(***************************************************************************)
(* C37.  The state InvalidateBlock leaves when it returns true.            *)
(***************************************************************************)
\* The step is an InvalidateBlock(b) that returned true.
InvalidateReturnedTrue(b) ==
    /\ lastOp'.op = "InvalidateBlock"
    /\ lastOp'.ret
    /\ lastOp'.pindex = b
    /\ lastOp' # lastOp \/ ChainState' # ChainState

\* The blocks of the active chain at or above the height of b, before the step.
ActiveAtOrAbove(b) ==
    {chainActive[i] : i \in (mapBlockIndex[b].nHeight + 1)..Len(chainActive)}

\* b is flagged BLOCK_FAILED_VALID, no candidate has a failure flag, and every node
\* without a failure flag that has complete data and does not sort worse than the
\* new tip is a candidate, the new tip among them.
InvalidateLeavesCandidates(b) ==
    /\ mapBlockIndex'[b].nStatus.failedValid
    /\ \A p \in setBlockIndexCandidates' : ~Failed(mapBlockIndex'[p])
    /\ \A p \in DOMAIN mapBlockIndex' :
           (/\ ~Failed(mapBlockIndex'[p])
            /\ mapBlockIndex'[p].nChainTx # 0
            /\ ~CBlockIndexWorkComparator(mapBlockIndex', p, Tip(chainActive')))
               => p \in setBlockIndexCandidates'
    /\ Tip(chainActive') \in setBlockIndexCandidates'

\* The claim as it is stated: after InvalidateBlock(b) has returned true, every block
\* that was on the active chain at or above the height of b is flagged failed and is
\* no longer on the active chain, whether b was on the active chain or not.
C37_AsStated ==
    [][\A b \in DOMAIN mapBlockIndex :
          InvalidateReturnedTrue(b) =>
              /\ InvalidateLeavesCandidates(b)
              /\ \A p \in ActiveAtOrAbove(b) :
                     /\ Failed(mapBlockIndex'[p])
                     /\ ~Contains(mapBlockIndex', chainActive', p)]_vars

\* C37: after InvalidateBlock(b) has returned true, b is flagged BLOCK_FAILED_VALID
\* and is no candidate; if b was on the active chain, b and every block above it on
\* the active chain are flagged failed, disconnected and no candidates, and the tip is
\* the parent of b, and if b was not on the active chain the active chain is as it
\* was; no node that the call has put into the candidate set has a failure flag, and
\* every node without a failure flag that has complete data and does not sort worse
\* than the new tip is a candidate, the new tip among them if it has no failure flag.
C37_InvalidatePostcondition ==
    [][\A b \in DOMAIN mapBlockIndex :
          InvalidateReturnedTrue(b) =>
              /\ mapBlockIndex'[b].nStatus.failedValid
              /\ b \notin setBlockIndexCandidates'
              /\ IF Contains(mapBlockIndex, chainActive, b)
                 THEN /\ \A p \in ActiveAtOrAbove(b) :
                             /\ Failed(mapBlockIndex'[p])
                             /\ ~Contains(mapBlockIndex', chainActive', p)
                             /\ p \notin setBlockIndexCandidates'
                      /\ Tip(chainActive') = mapBlockIndex[b].pprev
                      /\ chainActive' = SubSeq(chainActive, 1, mapBlockIndex[b].nHeight)
                 ELSE chainActive' = chainActive
              /\ \A p \in setBlockIndexCandidates' \ setBlockIndexCandidates :
                     ~Failed(mapBlockIndex'[p])
              /\ \A p \in DOMAIN mapBlockIndex' :
                     (/\ ~Failed(mapBlockIndex'[p])
                      /\ mapBlockIndex'[p].nChainTx # 0
                      /\ ~CBlockIndexWorkComparator(mapBlockIndex', p, Tip(chainActive')))
                         => p \in setBlockIndexCandidates'
              /\ ~Failed(mapBlockIndex'[Tip(chainActive')])
                     => Tip(chainActive') \in setBlockIndexCandidates']_vars

\* InvalidateBlock has returned true for a block below the tip: two blocks were
\* disconnected, and the parent of the block is the tip and a candidate.
C37_Witness ==
    /\ lastOp.op = "InvalidateBlock"
    /\ lastOp.ret
    /\ Len(stepOps) = 2
    /\ mapBlockIndex[lastOp.pindex].nStatus.failedValid
    /\ Tip(chainActive) = mapBlockIndex[lastOp.pindex].pprev
    /\ Tip(chainActive) \in setBlockIndexCandidates
(***************************************************************************)
(* C38.  ReconsiderBlock undoes InvalidateBlock.                           *)
(***************************************************************************)
\* The step is a ReconsiderBlock(b).
ReconsiderStep(b) ==
    /\ lastOp'.op = "ReconsiderBlock"
    /\ lastOp'.pindex = b
    /\ lastOp' # lastOp \/ ChainState' # ChainState

\* The step is InvalidateBlock(b), ReconsiderBlock(b), ActivateBestChain.
RoundTripStep(b) ==
    /\ lastOp'.op = "InvalidateReconsiderActivate"
    /\ lastOp'.pindex = b
    /\ lastOp' # lastOp \/ ChainState' # ChainState

\* After the step b, its descendants and its ancestors carry no failure flag.
FlagsCleared(b) ==
    \A p \in {b} \cup Descendants(mapBlockIndex, b) \cup Ancestry(mapBlockIndex, b) :
        ~Failed(mapBlockIndex'[p])

\* The claim as it is stated: ReconsiderBlock(b) clears the failure flags of b, of its
\* descendants and of its ancestors and leaves every descendant with complete data
\* that sorts better than the tip in the candidate set, and InvalidateBlock(b),
\* ReconsiderBlock(b), ActivateBestChain end with the tip they started from.
C38_AsStated ==
    [][\A b \in DOMAIN mapBlockIndex :
          /\ ReconsiderStep(b) =>
                 /\ FlagsCleared(b)
                 /\ \A p \in {b} \cup Descendants(mapBlockIndex, b) :
                        (/\ mapBlockIndex'[p].nChainTx # 0
                         /\ CBlockIndexWorkComparator(mapBlockIndex', Tip(chainActive'), p))
                            => p \in setBlockIndexCandidates'
          /\ RoundTripStep(b) => Tip(chainActive') = Tip(chainActive)]_vars

\* No block that has complete data and no failure flag on its path sorts better than
\* the active tip: the active chain is the best chain of the index.
TipIsBest ==
    \A p \in DOMAIN mapBlockIndex :
        (Usable(mapBlockIndex, p) /\ mapBlockIndex[p].nChainTx # 0)
            => ~CBlockIndexWorkComparator(mapBlockIndex, Tip(chainActive), p)

\* ActivateBestChain would leave the active chain as it is: FindMostWorkChain finds no
\* candidate to move to.
NothingToActivate ==
    LET f == FindMostWorkChain(ChainState)
    IN  f.ret = Null \/ f.ret = Tip(chainActive)

\* Neither b nor any of its ancestors or descendants carries a failure flag.
NoFlagNear(b) ==
    \A p \in {b} \cup Descendants(mapBlockIndex, b) \cup Ancestry(mapBlockIndex, b) :
        ~Failed(mapBlockIndex[p])

\* C38 (amended): ReconsiderBlock(b) clears the failure flags of b, of its descendants
\* and of its ancestors, and leaves in the candidate set every block among b and its
\* descendants that carried a failure flag before the call, has complete data and sorts
\* better than the active tip.  InvalidateBlock(b), ReconsiderBlock(b), ActivateBestChain
\* leave the active chain as it was when, before the invalidation, ActivateBestChain had
\* nothing to do, the active tip was the best block of the index and no block on b's
\* path or below b carried a failure flag.
C38_ReconsiderUndoesInvalidate ==
    [][\A b \in DOMAIN mapBlockIndex :
          /\ ReconsiderStep(b) =>
                 /\ FlagsCleared(b)
                 /\ \A p \in {b} \cup Descendants(mapBlockIndex, b) :
                        (/\ Failed(mapBlockIndex[p])
                         /\ mapBlockIndex'[p].nChainTx # 0
                         /\ CBlockIndexWorkComparator(mapBlockIndex', Tip(chainActive'), p))
                            => p \in setBlockIndexCandidates'
          /\ (RoundTripStep(b) /\ NothingToActivate /\ TipIsBest /\ NoFlagNear(b))
                 => chainActive' = chainActive]_vars

\* A block of the active chain below the tip was invalidated and reconsidered: the
\* invalidation disconnected it, the activation connected it again, and the tip is the
\* one the round trip started from.
C38_Witness ==
    /\ lastOp.op = "InvalidateReconsiderActivate"
    /\ Contains(mapBlockIndex, chainActive, lastOp.pindex)
    /\ lastOp.pindex # Tip(chainActive)
    /\ lastOp.pindexOldTip = Tip(chainActive)
    /\ \E i, j \in 1..Len(stepOps) :
           /\ i < j
           /\ stepOps[i] = <<"disconnect", lastOp.pindex>>
           /\ stepOps[j] = <<"connect", lastOp.pindex>>
    /\ \A p \in DOMAIN mapBlockIndex : ~Failed(mapBlockIndex[p])

(***************************************************************************)
(* C39.  The latch of IsInitialBlockDownload.                              *)
(***************************************************************************)
\* The call of thread t is about to return true.
ReturnsTrue(t) ==
    /\ ibdCalls[t].pc = "return"
    /\ ibdCalls[t].ret \in {"true at flags", "true at state"}

\* C39: a call of IsInitialBlockDownload that began after some call had returned false
\* returns false, whatever the flags, the heights and the age of the best header are by
\* then and whichever threads call; and a false is returned only with the latch set.
C39_InitialDownloadLatch ==
    /\ \A t \in Threads : ibdCalls[t].fAfterFalse => ~ReturnsTrue(t)
    /\ ibdReturnedFalse => latchToFalse

\* A call that began after a false had been returned read the old value of the latch
\* before the lock, found the latch set under the lock and returns false, while a flag
\* that would make an unlatched call return true is set.
C39_Witness ==
    \E t \in Threads :
        /\ ibdCalls[t].pc = "return"
        /\ ibdCalls[t].fAfterFalse
        /\ ibdCalls[t].ret = "false at second test"
        /\ IsInitialBlockDownloadUnlatched(ibdEnv, FALSE).ret

(***************************************************************************)
(* C40.  DisconnectBlocks rewinds by the requested count.                  *)
(***************************************************************************)
\* C40: after DisconnectBlocks(nBlocks) on an active chain of height at least nBlocks
\* the height of the tip is the height before the call less nBlocks.
C40_RewindsByCount ==
    (/\ lastOp.op = "DisconnectBlocks"
     /\ lastOp.nHeightBefore >= lastOp.nBlocks)
        => Len(chainActive) - 1 = lastOp.nHeightBefore - lastOp.nBlocks

====
